---- MODULE Spec2Model ----
(***************************************************************************)
(* A model of the fixed-width unsigned integer BUintD8<N> (u8 digits) of   *)
(* bnum: radix parsing and formatting (src/src/buint/radix.rs), the        *)
(* operators of src/src/buint/ops.rs, the num-trait glue of                *)
(* src/src/int/numtraits.rs, the ordering of src/src/buint/cmp.rs, and of  *)
(* Float<N, MB> over the same digits: src/src/float/classify.rs and        *)
(* src/src/float/cmp.rs.  A BUint is the sequence of its N digits,         *)
(* least significant first: digits[i] of the source is self[i + 1] here.   *)
(* A Vec<u8>, a byte slice and the bytes of a str are sequences of 0..255. *)
(* A result (Option, Result, bool, Ordering, FpCategory, or an aborted     *)
(* call) is a record [tag, val]: tag is "Some", "None", "Ok", "Err_Empty", *)
(* "Err_InvalidDigit", "Err_PosOverflow", "Vec", "Val", "Digit",           *)
(* "Overflow", "NoOverflow", "Ordering", "true", "false", the name of an   *)
(* FpCategory, or "Panic"; val is the sequence of digits or bytes carried, *)
(* or the Ordering as -1, 0 or 1.                                          *)
(***************************************************************************)
EXTENDS Integers, Sequences, FiniteSets, TLC

\* u8::BITS: the width of one digit of BUintD8 (digit::u8::BITS_U8)
BITS == 8

\* the const generic N of BUintD8<N>: the number of digits
N == 2

\* the longest byte slice / string handed to a parsing function
MaxLen == 5

\* mantissa bits of the modelled Float<N, MB>; 0 < MB < N * BITS - 1
MB == 10

RECURSIVE Pow(_, _)
Pow(b, e) == IF e = 0 THEN 1 ELSE b * Pow(b, e - 1)

\* one more than u8::MAX
DigitBase == Pow(2, BITS)

DigitMax == DigitBase - 1

\* 2^(N * BITS): the number of values of BUintD8<N>
Limit == Pow(DigitBase, N)

Min(a, b) == IF a < b THEN a ELSE b

\* value = sum of digits[i] * base^i
RECURSIVE Value(_)
Value(digits) ==
    IF Len(digits) = 0 THEN 0
    ELSE digits[1] + DigitBase * Value(Tail(digits))

\* the N digits of a value below Limit
ToDigits(v) == [i \in 1..N |-> (v \div Pow(DigitBase, i - 1)) % DigitBase]

ZERO == [i \in 1..N |-> 0]

MAX == [i \in 1..N |-> DigitMax]

\* `x as u8` of a u32
AsDigit(x) == x % DigitBase

Res(tag, val) == [tag |-> tag, val |-> val]

Some(v) == Res("Some", v)

None == Res("None", <<>>)

Ok(v) == Res("Ok", v)

Err(kind) == Res(kind, <<>>)

Panic == Res("Panic", <<>>)

RECURSIVE BitOr(_, _)
BitOr(a, b) ==
    IF a = 0 THEN b
    ELSE IF b = 0 THEN a
    ELSE (IF a % 2 = 1 \/ b % 2 = 1 THEN 1 ELSE 0) + 2 * BitOr(a \div 2, b \div 2)

RECURSIVE BitAnd(_, _)
BitAnd(a, b) ==
    IF a = 0 \/ b = 0 THEN 0
    ELSE (IF a % 2 = 1 /\ b % 2 = 1 THEN 1 ELSE 0) + 2 * BitAnd(a \div 2, b \div 2)

\* x << s and x >> s on a digit, for a shift amount s < BITS
Shl(x, s) == (x * Pow(2, s)) % DigitBase

Shr(x, s) == x \div Pow(2, s)

Rev(s) == [i \in 1..Len(s) |-> s[Len(s) + 1 - i]]

\* slice::chunks(k): consecutive chunks from the front, the last one may be short
RECURSIVE Chunks(_, _)
Chunks(s, k) ==
    IF Len(s) = 0 THEN <<>>
    ELSE IF Len(s) <= k THEN <<s>>
    ELSE <<SubSeq(s, 1, k)>> \o Chunks(SubSeq(s, k + 1, Len(s)), k)

\* slice::rchunks(k): chunks taken from the back, the last one yielded may be short
RECURSIVE RChunks(_, _)
RChunks(s, k) ==
    IF Len(s) = 0 THEN <<>>
    ELSE IF Len(s) <= k THEN <<s>>
    ELSE <<SubSeq(s, Len(s) - k + 1, Len(s))>> \o RChunks(SubSeq(s, 1, Len(s) - k), k)

\* u32::is_power_of_two
RECURSIVE is_power_of_two(_)
is_power_of_two(a) ==
    IF a = 0 THEN FALSE
    ELSE IF a = 1 THEN TRUE
    ELSE a % 2 = 0 /\ is_power_of_two(a \div 2)

\* 31 - a.leading_zeros(): the index of the highest set bit (a > 0)
RECURSIVE ilog2(_)
ilog2(a) == IF a <= 1 THEN 0 ELSE 1 + ilog2(a \div 2)

(***************************************************************************)
(* Methods of BUint that radix.rs calls and that live outside the files    *)
(* modelled here; they follow the data model and the digit contracts of    *)
(* the specification.                                                      *)
(***************************************************************************)

is_zero(self) == \A i \in 1..N : self[i] = 0

\* index (0-based) of the most significant nonzero digit, 0 for ZERO
last_digit_index(self) ==
    IF is_zero(self) THEN 0
    ELSE (CHOOSE i \in 1..N : self[i] # 0 /\ \A j \in (i + 1)..N : self[j] = 0) - 1

from_digit(d) == [i \in 1..N |-> IF i = 1 THEN d ELSE 0]

\* Digit::carrying_add(a, b, carry_in) -> (sum, carry_out)
carrying_add(a, b, carry) ==
    LET s == a + b + (IF carry THEN 1 ELSE 0)
    IN  <<s % DigitBase, s >= DigitBase>>

\* Digit::carrying_mul(a, b, acc, carry_in) -> (low, high) of a * b + acc + carry_in
carrying_mul(a, b, acc, carry) ==
    LET p == a * b + acc + carry
    IN  <<p % DigitBase, p \div DigitBase>>

\* the digits i.. of a + b with carry c into digit i, and the carry out
RECURSIVE add_from(_, _, _, _)
add_from(a, b, i, c) ==
    IF i > N THEN <<<<>>, c>>
    ELSE LET r == carrying_add(a[i], b[i], c)
             rest == add_from(a, b, i + 1, r[2])
         IN  <<<<r[1]>> \o rest[1], rest[2]>>

\* overflowing_add: a single carry propagated from digit 0 to digit N - 1
overflowing_add(a, b) == add_from(a, b, 1, FALSE)

checked_add(a, b) ==
    LET r == overflowing_add(a, b)
    IN  IF r[2] THEN None ELSE Some(r[1])

wrapping_add(a, b) == overflowing_add(a, b)[1]

saturating_add(a, b) ==
    LET r == overflowing_add(a, b)
    IN  IF r[2] THEN MAX ELSE r[1]

\* long division by one digit, from the most significant digit down, with carry
RECURSIVE div_rem_digit_from(_, _, _, _)
div_rem_digit_from(self, rhs, i, rem) ==
    IF i = 0 THEN <<<<>>, rem>>
    ELSE LET cur == rem * DigitBase + self[i]
             lower == div_rem_digit_from(self, rhs, i - 1, cur % rhs)
         IN  <<lower[1] \o <<cur \div rhs>>, lower[2]>>

\* (quotient, remainder) of self by the nonzero digit rhs
div_rem_digit(self, rhs) == div_rem_digit_from(self, rhs, N, 0)

(***************************************************************************)
(* radix.rs: formatting                                                    *)
(***************************************************************************)

RECURSIVE radix_base_loop(_, _, _)
radix_base_loop(radix, base, power) ==
    IF base * radix <= DigitMax
    THEN radix_base_loop(radix, base * radix, power + 1)
    ELSE <<base, power>>

\* the largest power of radix that fits one digit, and its exponent
radix_base(radix) == radix_base_loop(AsDigit(radix), AsDigit(radix), 1)

\* Digit::MAX >> (Digit::BITS / 2)
HALF_BITS_MAX == Shr(DigitMax, BITS \div 2)

RECURSIVE radix_base_half_loop(_, _, _)
radix_base_half_loop(radix, base, power) ==
    IF base * radix <= DigitMax /\ base * radix <= HALF_BITS_MAX
    THEN radix_base_half_loop(radix, base * radix, power + 1)
    ELSE <<base, power>>

radix_base_half(radix) == radix_base_half_loop(AsDigit(radix), AsDigit(radix), 1)

\* (1 << bits) - 1
mask_of(bits) == Pow(2, bits) - 1

\* `count` times: out.push((d & mask) as u8); d >>= bits
RECURSIVE push_masked(_, _, _)
push_masked(d, bits, count) ==
    IF count = 0 THEN <<>>
    ELSE <<BitAnd(d, mask_of(bits))>> \o push_masked(Shr(d, bits), bits, count - 1)

\* while r != 0 { out.push((r & mask) as u8); r >>= bits; }
RECURSIVE drain_masked(_, _)
drain_masked(r, bits) ==
    IF r = 0 THEN <<>>
    ELSE <<BitAnd(r, mask_of(bits))>> \o drain_masked(Shr(r, bits), bits)

RECURSIVE bitwise_lower_digits(_, _, _, _)
bitwise_lower_digits(self, bits, i, last) ==
    IF i > last THEN <<>>
    ELSE push_masked(self[i], bits, BITS \div bits)
         \o bitwise_lower_digits(self, bits, i + 1, last)

to_bitwise_digits_le(self, bits) ==
    LET last == last_digit_index(self)
    IN  bitwise_lower_digits(self, bits, 1, last) \o drain_masked(self[last + 1], bits)

\* inexact_unpack without the refill of r from c once the bits carried over are
\* used up
RECURSIVE inexact_unpack_no_refill(_, _, _)
inexact_unpack_no_refill(st, c, bits) ==
    IF st.rbits >= bits
    THEN inexact_unpack_no_refill(
            [out   |-> Append(st.out, BitAnd(st.r, mask_of(bits))),
             r     |-> Shr(st.r, bits),
             rbits |-> st.rbits - bits], c, bits)
    ELSE st

\* the inner `while rbits >= bits` of to_inexact_bitwise_digits_le;
\* st = [out, r, rbits], c the digit being unpacked
RECURSIVE inexact_unpack(_, _, _)
inexact_unpack(st, c, bits) ==
    IF st.rbits >= bits
    THEN inexact_unpack(
            [out   |-> Append(st.out, BitAnd(st.r, mask_of(bits))),
             r     |-> IF st.rbits > BITS
                       THEN Shr(c, BITS - (st.rbits - bits))
                       ELSE Shr(st.r, bits),
             rbits |-> st.rbits - bits], c, bits)
    ELSE st

\* the `for c in self.digits` of to_inexact_bitwise_digits_le
RECURSIVE inexact_digits(_, _, _, _)
inexact_digits(self, bits, i, st) ==
    IF i > N THEN st
    ELSE inexact_digits(self, bits, i + 1,
            inexact_unpack([out   |-> st.out,
                            r     |-> BitOr(st.r, Shl(self[i], st.rbits)),
                            rbits |-> st.rbits + BITS], self[i], bits))

\* while let Some(&0) = out.last() { out.pop(); }
RECURSIVE pop_zeros(_)
pop_zeros(out) ==
    IF Len(out) > 0 /\ out[Len(out)] = 0
    THEN pop_zeros(SubSeq(out, 1, Len(out) - 1))
    ELSE out

to_inexact_bitwise_digits_le(self, bits) ==
    LET st == inexact_digits(self, bits, 1, [out |-> <<>>, r |-> 0, rbits |-> 0])
    IN  pop_zeros(IF st.rbits # 0 THEN Append(st.out, st.r) ELSE st.out)

\* `count` times: out.push((r % radix) as u8); r /= radix
RECURSIVE push_radix(_, _, _)
push_radix(r, radix, count) ==
    IF count = 0 THEN <<>>
    ELSE <<r % radix>> \o push_radix(r \div radix, radix, count - 1)

\* while r != 0 { out.push((r % radix) as u8); r /= radix; }
RECURSIVE drain_radix(_, _)
drain_radix(r, radix) ==
    IF r = 0 THEN <<>>
    ELSE <<r % radix>> \o drain_radix(r \div radix, radix)

RECURSIVE radix_digits_loop(_, _, _, _)
radix_digits_loop(copy, radix, base, power) ==
    IF last_digit_index(copy) > 0
    THEN LET qr == div_rem_digit(copy, base)
         IN  push_radix(qr[2], radix, power)
             \o radix_digits_loop(qr[1], radix, base, power)
    ELSE drain_radix(copy[1], radix)

to_radix_digits_le(self, radix) ==
    LET bp == radix_base_half(radix)
    IN  radix_digits_loop(self, AsDigit(radix), bp[1], bp[2])

\* `BITS_U8 % bits` with bits = ilog2(radix) = 0 divides by zero: the call
\* aborts, in every build
to_radix_le_aborts(self, radix) ==
    /\ ~is_zero(self)
    /\ is_power_of_two(radix)
    /\ ~(BITS = 8 /\ radix = 256)
    /\ ilog2(radix) = 0

to_radix_le(self, radix) ==
    IF is_zero(self) THEN <<0>>
    ELSE IF is_power_of_two(radix)
    THEN IF BITS = 8 /\ radix = 256
         THEN SubSeq(self, 1, last_digit_index(self) + 1)
         ELSE IF BITS % ilog2(radix) = 0
              THEN to_bitwise_digits_le(self, ilog2(radix))
              ELSE to_inexact_bitwise_digits_le(self, ilog2(radix))
    ELSE IF radix = 10 THEN to_radix_digits_le(self, 10)
    ELSE to_radix_digits_le(self, radix)

\* a big-endian expansion that is not reversed
to_radix_be_unreversed(self, radix) == to_radix_le(self, radix)

to_radix_be(self, radix) == Rev(to_radix_le(self, radix))

\* b'0' and b'a'
Byte0 == 48

Bytea == 97

\* b'A'
ByteA == 65

\* b'+'
BytePlus == 43

\* to_str_radix adding b'a' to a digit of 10 or more, not b'a' - 10
to_str_radix_letter_off(self, radix) ==
    LET out == to_radix_be(self, radix)
    IN  [i \in 1..Len(out) |->
            IF out[i] < 10 THEN out[i] + Byte0 ELSE out[i] + Bytea]

to_str_radix(self, radix) ==
    LET out == to_radix_be(self, radix)
    IN  [i \in 1..Len(out) |->
            IF out[i] < 10 THEN out[i] + Byte0 ELSE out[i] + (Bytea - 10)]

(***************************************************************************)
(* radix.rs: parsing.  `checks` is the build's overflow-checks setting: an *)
(* arithmetic overflow or a shift by BITS or more panics when it is on (a  *)
(* debug build) and wraps (the shift amount is masked) when it is off.     *)
(***************************************************************************)

\* a range test with no upper end
assert_range_lower_only(radix, max) == radix >= 2

\* radix in 2..=max, else the call panics
assert_range(radix, max) == radix >= 2 /\ radix <= max

\* inner_iter.fold(0, |acc, c| (acc << bits) | c as Digit)
RECURSIVE fold_bits(_, _, _)
fold_bits(chunk, bits, acc) ==
    IF Len(chunk) = 0 THEN acc
    ELSE fold_bits(Tail(chunk), bits, BitOr(Shl(acc, bits), chunk[1]))

from_bitwise_digits_le(iter, bits) ==
    LET ds == [i \in 1..Len(iter) |-> fold_bits(iter[i], bits, 0)]
    IN  IF \E i \in (N + 1)..Len(ds) : ds[i] # 0
        THEN None
        ELSE Some([i \in 1..N |-> IF i <= Len(ds) THEN ds[i] ELSE 0])

\* one pass of `for byte in iter` of from_inexact_bitwise_digits_le;
\* st = [out, digit, dbits, index, tag], tag "run" until a return or a panic
inexact_step(st, byte, bits, checks) ==
    IF st.dbits >= BITS /\ checks THEN [st EXCEPT !.tag = "Panic"]
    ELSE IF st.dbits + bits > 255 /\ checks THEN [st EXCEPT !.tag = "Panic"]
    ELSE LET digit == BitOr(st.digit, Shl(byte, st.dbits % BITS))
             dbits == (st.dbits + bits) % 256
         IN  IF dbits >= BITS
             THEN IF st.index < N
                  THEN [out   |-> [st.out EXCEPT ![st.index + 1] = digit],
                        digit |-> Shr(byte, bits - (dbits - BITS)),
                        dbits |-> dbits - BITS,
                        index |-> st.index + 1,
                        tag   |-> "run"]
                  ELSE IF digit # 0
                  THEN [st EXCEPT !.tag = "None"]
                  ELSE [st EXCEPT !.digit = digit, !.dbits = dbits]
             ELSE [st EXCEPT !.digit = digit, !.dbits = dbits]

RECURSIVE inexact_loop(_, _, _, _, _)
inexact_loop(st, iter, i, bits, checks) ==
    IF i > Len(iter) \/ st.tag # "run" THEN st
    ELSE inexact_loop(inexact_step(st, iter[i], bits, checks), iter, i + 1, bits, checks)

from_inexact_bitwise_digits_le(iter, bits, checks) ==
    LET st == inexact_loop([out |-> ZERO, digit |-> 0, dbits |-> 0, index |-> 0,
                            tag |-> "run"], iter, 1, bits, checks)
    IN  IF st.tag = "Panic" THEN Panic
        ELSE IF st.tag = "None" THEN None
        ELSE IF st.dbits > 0 /\ st.digit # 0
        THEN IF st.index < N
             THEN Some([st.out EXCEPT ![st.index + 1] = st.digit])
             ELSE None
        ELSE Some(st.out)

\* mac_with_carry over out.digits: (out * base, carry out of the top digit)
RECURSIVE mac_digits(_, _, _, _)
mac_digits(out, base, i, carry) ==
    IF i > N THEN <<<<>>, carry>>
    ELSE LET lh == carrying_mul(out[i], base, carry, 0)
             rest == mac_digits(out, base, i + 1, lh[2])
         IN  <<<<lh[1]>> \o rest[1], rest[2]>>

\* iter.fold(0, |acc, d| acc * radix + d as Digit), exactly
RECURSIVE fold_radix(_, _, _)
fold_radix(chunk, radix, acc) ==
    IF Len(chunk) = 0 THEN acc
    ELSE fold_radix(Tail(chunk), radix, acc * radix + chunk[1])

\* the `for chunk_iter in tail` of from_radix_digits_be
RECURSIVE radix_chunks_loop(_, _, _, _, _, _)
radix_chunks_loop(out, tail, i, radix, base, checks) ==
    IF i > Len(tail) THEN Some(out)
    ELSE LET m == mac_digits(out, base, 1, 0)
             n == fold_radix(tail[i], radix, 0)
             sum == checked_add(m[1], from_digit(AsDigit(n)))
         IN  IF m[2] # 0 THEN None
             ELSE IF n > DigitMax /\ checks THEN Panic
             ELSE IF sum.tag = "None" THEN None
             ELSE radix_chunks_loop(sum.val, tail, i + 1, radix, base, checks)

from_radix_digits_be(head, tail, radix, base, checks) ==
    LET first == fold_radix(head, AsDigit(radix), 0)
    IN  IF first > DigitMax /\ checks THEN Panic
        ELSE radix_chunks_loop(from_digit(AsDigit(first)), tail, 1,
                               AsDigit(radix), base, checks)

\* the byte-copy constructors used for radix 256 with u8 digits: the value of
\* the bytes, None when it does not fit N digits
from_le_slice(buf) ==
    IF \E i \in (N + 1)..Len(buf) : buf[i] # 0 THEN None
    ELSE Some([i \in 1..N |-> IF i <= Len(buf) THEN buf[i] ELSE 0])

from_be_slice(buf) == from_le_slice(Rev(buf))

\* the index at which from_radix_be / from_str_radix split head from tail
split_index(len, power) == IF len % power = 0 THEN power ELSE len % power

from_radix_be(buf, radix, checks) ==
    IF ~assert_range(radix, 256) THEN Panic
    ELSE IF Len(buf) = 0 THEN Some(ZERO)
    ELSE IF BITS = 8 /\ radix = 256 THEN from_be_slice(buf)
    ELSE IF radix # 256 /\ \E k \in 1..Len(buf) : buf[k] >= radix % 256 THEN None
    ELSE IF is_power_of_two(radix)
    THEN IF BITS % ilog2(radix) = 0
         THEN from_bitwise_digits_le(RChunks(buf, BITS \div ilog2(radix)), ilog2(radix))
         ELSE from_inexact_bitwise_digits_le(Rev(buf), ilog2(radix), checks)
    ELSE LET bp == radix_base(radix)
             i == split_index(Len(buf), bp[2])
         IN  from_radix_digits_be(SubSeq(buf, 1, i),
                                  Chunks(SubSeq(buf, i + 1, Len(buf)), bp[2]),
                                  radix, bp[1], checks)

\* little-endian digits read most significant first
from_radix_le_as_be(buf, radix, checks) == from_radix_be(buf, radix, checks)

from_radix_le(buf, radix, checks) ==
    IF ~assert_range(radix, 256) THEN Panic
    ELSE IF Len(buf) = 0 THEN Some(ZERO)
    ELSE IF BITS = 8 /\ radix = 256 THEN from_le_slice(buf)
    ELSE IF radix # 256 /\ \E k \in 1..Len(buf) : buf[k] >= radix % 256 THEN None
    ELSE IF is_power_of_two(radix)
    THEN IF BITS % ilog2(radix) = 0
         THEN LET ch == Chunks(buf, BITS \div ilog2(radix))
              IN  from_bitwise_digits_le([k \in 1..Len(ch) |-> Rev(ch[k])], ilog2(radix))
         ELSE from_inexact_bitwise_digits_le(buf, ilog2(radix), checks)
    ELSE LET bp == radix_base(radix)
             i == split_index(Len(buf), bp[2])
             ch == RChunks(SubSeq(buf, 1, Len(buf) - i), bp[2])
         IN  from_radix_digits_be(Rev(SubSeq(buf, Len(buf) - i + 1, Len(buf))),
                                  [k \in 1..Len(ch) |-> Rev(ch[k])],
                                  radix, bp[1], checks)

\* u8::MAX, the digit of a byte that is no ASCII alphanumeric
U8MAX == 255

\* byte_to_digit giving 0, a valid digit, for a byte that is no alphanumeric
byte_to_digit_lenient(byte) ==
    IF byte >= Byte0 /\ byte <= Byte0 + 9 THEN byte - Byte0
    ELSE IF byte >= Bytea /\ byte <= Bytea + 25 THEN byte - Bytea + 10
    ELSE IF byte >= ByteA /\ byte <= ByteA + 25 THEN byte - ByteA + 10
    ELSE 0

byte_to_digit(byte) ==
    IF byte >= Byte0 /\ byte <= Byte0 + 9 THEN byte - Byte0
    ELSE IF byte >= Bytea /\ byte <= Bytea + 25 THEN byte - Bytea + 10
    ELSE IF byte >= ByteA /\ byte <= ByteA + 25 THEN byte - ByteA + 10
    ELSE U8MAX

map_digits(buf) == [k \in 1..Len(buf) |-> byte_to_digit(buf[k])]

from_str_radix(src, radix, checks) ==
    IF ~assert_range(radix, 36) THEN Panic
    ELSE LET buf == IF Len(src) > 0 /\ src[1] = BytePlus THEN Tail(src) ELSE src
         IN  IF Len(buf) = 0 THEN Err("Err_Empty")
             ELSE IF \E k \in 1..Len(buf) : byte_to_digit(buf[k]) >= radix % 256
             THEN Err("Err_InvalidDigit")
             ELSE LET r == IF radix \in {2, 4, 16}
                           THEN from_bitwise_digits_le(
                                    RChunks(map_digits(buf), BITS \div ilog2(radix)),
                                    ilog2(radix))
                           ELSE IF radix \in {8, 32}
                           THEN from_inexact_bitwise_digits_le(
                                    Rev(map_digits(buf)), ilog2(radix), checks)
                           ELSE LET bp == radix_base(radix)
                                    i == split_index(Len(buf), bp[2])
                                IN  from_radix_digits_be(
                                        map_digits(SubSeq(buf, 1, i)),
                                        Chunks(map_digits(SubSeq(buf, i + 1, Len(buf))),
                                               bp[2]),
                                        radix, bp[1], checks)
                  IN  IF r.tag = "Some" THEN Ok(r.val)
                      ELSE IF r.tag = "None" THEN Err("Err_PosOverflow")
                      ELSE r

\* core::str::from_utf8(buf).ok()?: ASCII is valid; a buffer with a byte of 128 or
\* more is either invalid or holds a non-alphanumeric char, and parses to None
\* either way
parse_bytes(buf, radix, checks) ==
    IF \E k \in 1..Len(buf) : buf[k] >= 128 THEN None
    ELSE LET r == from_str_radix(buf, radix, checks)
         IN  IF r.tag = "Ok" THEN Some(r.val)
             ELSE IF r.tag = "Panic" THEN Panic
             ELSE None

\* const BP: (Digit, usize) = Self::radix_base(10)
BP == radix_base(10)

\* the `while start < buf.len()` of FromStr::from_str
RECURSIVE from_str_loop(_, _, _)
from_str_loop(out, buf, start) ==
    IF start > Len(buf) THEN Ok(out)
    ELSE LET m == mac_digits(out, BP[1], 1, 0)
             n == fold_radix(SubSeq(buf, start, Min(start + BP[2] - 1, Len(buf))), 10, 0)
             sum == checked_add(m[1], from_digit(n))
         IN  IF m[2] # 0 THEN Err("Err_PosOverflow")
             ELSE IF sum.tag = "None" THEN Err("Err_PosOverflow")
             ELSE from_str_loop(sum.val, buf, start + BP[2])

\* FromStr::from_str; buf[i] with i >= buf.len() panics (index out of bounds)
from_str(src) ==
    IF \E k \in 1..Len(src) : byte_to_digit(src[k]) >= 10 THEN Err("Err_InvalidDigit")
    ELSE LET split == split_index(Len(src), BP[2])
         IN  IF split > Len(src) THEN Panic
             ELSE from_str_loop(
                     from_digit(fold_radix(map_digits(SubSeq(src, 1, split)), 10, 0)),
                     map_digits(src), split + 1)

(***************************************************************************)
(* ops.rs and numtraits.rs: the operators and the num-trait methods.  The  *)
(* inherent methods they forward to (checked_add, wrapping_div, ...) live  *)
(* outside the files modelled here and follow the specification.           *)
(***************************************************************************)

\* the digits i.. of `self.digits[0].carrying_add(0, carry)` for i in 1..N
RECURSIVE add_digit_from(_, _, _)
add_digit_from(self, i, carry) ==
    IF i > N THEN <<>>
    ELSE LET r == carrying_add(self[1], 0, carry)
         IN  <<r[1]>> \o add_digit_from(self, i + 1, r[2])

\* impl Add<Digit> for BUint<N>
add_digit(self, d) ==
    LET r == carrying_add(self[1], d, FALSE)
    IN  <<r[1]>> \o add_digit_from(self, 2, r[2])

\* num_trait_impl!(CheckedAdd, checked_add): Self::checked_add(*self, *rhs)
CheckedAdd_checked_add(a, b) == checked_add(a, b)

\* num_trait_impl!(SaturatingAdd, saturating_add) and Saturating::saturating_add
SaturatingAdd_saturating_add(a, b) == saturating_add(a, b)

\* WrappingAdd forwarding to the saturating method
WrappingAdd_forwards_saturating(a, b) == saturating_add(a, b)

\* num_trait_impl!(WrappingAdd, wrapping_add)
WrappingAdd_wrapping_add(a, b) == wrapping_add(a, b)

\* binary long division of values: (quotient, remainder) of the top `bit` bits of
\* a by b, b > 0
RECURSIVE div_rem_bits(_, _, _)
div_rem_bits(a, b, bit) ==
    IF bit < 0 THEN <<0, 0>>
    ELSE LET hi == div_rem_bits(a, b, bit - 1)
             shift == N * BITS - 1 - bit
             r == 2 * hi[2] + ((a \div Pow(2, shift)) % 2)
         IN  IF r >= b THEN <<2 * hi[1] + 1, r - b>> ELSE <<2 * hi[1], r>>

\* wrapping_div / wrapping_rem: a = q * b + r, 0 <= r < b; a zero divisor is fatal
\* (div_zero! / rem_zero!)
wrapping_div(a, b) ==
    IF is_zero(b) THEN Panic
    ELSE Res("Val", ToDigits(div_rem_bits(Value(a), Value(b), N * BITS - 1)[1]))

wrapping_rem(a, b) ==
    IF is_zero(b) THEN Panic
    ELSE Res("Val", ToDigits(div_rem_bits(Value(a), Value(b), N * BITS - 1)[2]))

\* impl Div for BUint<N>
div(self, r) == wrapping_div(self, r)

\* `%` delegating to wrapping_div
rem_delegates_div(self, r) == wrapping_div(self, r)

\* impl Rem for BUint<N>
rem(self, r) == wrapping_rem(self, r)

\* a digit quotient that saturates on a zero divisor
div_by_digit_saturating(self, d) ==
    Res("Val", IF d = 0 THEN MAX ELSE div_rem_digit(self, d)[1])

\* impl Div<Digit> for BUint<N>: self.div_rem_digit(rhs).0
div_by_digit(self, d) ==
    IF d = 0 THEN Panic ELSE Res("Val", div_rem_digit(self, d)[1])

\* impl Rem<Digit> for BUint<N>: self.div_rem_digit(rhs).1
rem_by_digit(self, d) ==
    IF d = 0 THEN Panic ELSE Res("Digit", <<div_rem_digit(self, d)[2]>>)

(***************************************************************************)
(* ops.rs: bitwise operators                                               *)
(***************************************************************************)

RECURSIVE BitXor(_, _)
BitXor(a, b) ==
    IF a = 0 THEN b
    ELSE IF b = 0 THEN a
    ELSE (IF (a % 2) # (b % 2) THEN 1 ELSE 0) + 2 * BitXor(a \div 2, b \div 2)

\* !d on a digit
BitNot(d) == DigitMax - d

\* while i < N { out.digits[i] = self.digits[i] & rhs.digits[i]; i += 1; }
RECURSIVE bitand_loop(_, _, _, _)
bitand_loop(self, r, out, i) ==
    IF i >= N THEN out
    ELSE bitand_loop(self, r, [out EXCEPT ![i + 1] = BitAnd(self[i + 1], r[i + 1])], i + 1)

\* impl BitAnd for BUint<N>
bitand(self, r) == bitand_loop(self, r, ZERO, 0)

RECURSIVE bitor_loop(_, _, _, _)
bitor_loop(self, r, out, i) ==
    IF i >= N THEN out
    ELSE bitor_loop(self, r, [out EXCEPT ![i + 1] = BitOr(self[i + 1], r[i + 1])], i + 1)

\* an OR that adds the operands, carrying between digits
bitor_carrying(self, r) == wrapping_add(self, r)

\* impl BitOr for BUint<N>
bitor(self, r) == bitor_loop(self, r, ZERO, 0)

RECURSIVE bitxor_loop(_, _, _, _)
bitxor_loop(self, r, out, i) ==
    IF i >= N THEN out
    ELSE bitxor_loop(self, r, [out EXCEPT ![i + 1] = BitXor(self[i + 1], r[i + 1])], i + 1)

\* impl BitXor for BUint<N>
bitxor(self, r) == bitxor_loop(self, r, ZERO, 0)

RECURSIVE not_loop(_, _, _)
not_loop(self, out, i) ==
    IF i >= N THEN out
    ELSE not_loop(self, [out EXCEPT ![i + 1] = BitNot(self[i + 1])], i + 1)

\* impl Not for BUint<N>
not(self) == not_loop(self, ZERO, 0)

(***************************************************************************)
(* buint/cmp.rs: equality and ordering of BUint                            *)
(***************************************************************************)

\* core::cmp::Ordering
Less == -1

Equal == 0

Greater == 1

Ordering(o) == Res("Ordering", <<o>>)

Bool(b) == Res(IF b THEN "true" ELSE "false", <<>>)

\* Ordering::reverse
reverse(o) == 0 - o

\* while i < N { if self.digits[i] != other.digits[i] { return false; } i += 1; }
RECURSIVE eq_loop(_, _, _)
eq_loop(self, other, i) ==
    IF i >= N THEN TRUE
    ELSE IF self[i + 1] # other[i + 1] THEN FALSE
    ELSE eq_loop(self, other, i + 1)

\* PartialEq::eq
eq(self, other) == eq_loop(self, other, 0)

\* while i > 0 { i -= 1; ... }: the digits from the most significant down
RECURSIVE cmp_loop(_, _, _)
cmp_loop(self, other, i) ==
    IF i > 0
    THEN LET a == self[i]
             b == other[i]
         IN  IF a > b THEN Greater
             ELSE IF a < b THEN Less
             ELSE cmp_loop(self, other, i - 1)
    ELSE Equal

\* a comparison in which the least significant differing digit decides
RECURSIVE cmp_low_digit_first(_, _)
cmp_low_digit_first(self, other) ==
    IF self = <<>> THEN Equal
    ELSE IF self[1] > other[1] THEN Greater
    ELSE IF self[1] < other[1] THEN Less
    ELSE cmp_low_digit_first(Tail(self), Tail(other))

\* Ord::cmp
cmp(self, other) == cmp_loop(self, other, N)

\* PartialOrd::partial_cmp
partial_cmp(self, other) == Some(<<cmp(self, other)>>)

\* PartialOrd::le, the provided method behind `min <= max`
le(self, other) == partial_cmp(self, other) \in {Some(<<Less>>), Some(<<Equal>>)}

\* Ord::max
max(self, other) ==
    IF cmp(self, other) \in {Less, Equal} THEN other ELSE self

\* a minimum that answers with the other operand whatever the order
min_takes_other(self, other) == other

\* Ord::min
min(self, other) ==
    IF cmp(self, other) \in {Less, Equal} THEN self ELSE other

\* a clamp that exchanges the bounds when min > max
clamp_swapping(self, lo, hi) ==
    LET a == min(lo, hi)
        b == max(lo, hi)
    IN  Res("Val", IF cmp(self, a) = Less THEN a
                   ELSE IF cmp(self, b) = Greater THEN b
                   ELSE self)

\* Ord::clamp: assert!(min <= max) aborts the call
clamp(self, lo, hi) ==
    IF ~le(lo, hi) THEN Panic
    ELSE IF cmp(self, lo) = Less THEN Res("Val", lo)
    ELSE IF cmp(self, hi) = Greater THEN Res("Val", hi)
    ELSE Res("Val", self)

(***************************************************************************)
(* BInt<N>: the same digits read as two's complement                       *)
(***************************************************************************)

\* the sign is the most significant bit of the top digit
is_negative(self) == self[N] >= DigitBase \div 2

\* two's-complement negation, !x + 1, wrapping
wrapping_neg(self) == ToDigits((Value(not(self)) + 1) % Limit)

\* a signed comparison that ignores the sign
Bint_cmp_unsigned(self, other) == cmp(self, other)

\* Bint::cmp: a pair of negatives is compared by magnitude, reversed; a
\* negative is below a non-negative; otherwise the unsigned order decides
Bint_cmp(self, other) ==
    IF is_negative(self) /\ is_negative(other)
    THEN reverse(cmp(wrapping_neg(self), wrapping_neg(other)))
    ELSE IF is_negative(self) THEN Less
    ELSE IF is_negative(other) THEN Greater
    ELSE cmp(self, other)

(***************************************************************************)
(* Float<W, MB> with W = N: a float is its bit pattern, a BUint<N>; from    *)
(* the top: one sign bit, EXPONENT_BITS exponent bits, MB mantissa bits.   *)
(***************************************************************************)

EXPONENT_BITS == N * BITS - MB - 1

to_bits(self) == self

\* the bit pattern as a two's-complement BInt
to_int(self) == self

\* the sign bit cleared
abs(self) == [self EXCEPT ![N] = self[N] % (DigitBase \div 2)]

\* +Infinity: exponent all ones, mantissa zero
INFINITY == ToDigits((Pow(2, EXPONENT_BITS) - 1) * Pow(2, MB))

\* the canonical quiet NaN: exponent all ones and the top mantissa bit
NAN == ToDigits((Pow(2, EXPONENT_BITS) - 1) * Pow(2, MB) + Pow(2, MB - 1))

Q_NAN_MASK == to_bits(NAN)

FINITE_MASK == to_bits(INFINITY)

\* Digit::trailing_zeros: BITS for zero
RECURSIVE digit_trailing_zeros(_, _)
digit_trailing_zeros(d, left) ==
    IF left = 0 THEN 0
    ELSE IF d % 2 = 1 THEN 0
    ELSE 1 + digit_trailing_zeros(d \div 2, left - 1)

\* BUint::trailing_zeros: N * BITS for zero
RECURSIVE trailing_zeros_from(_, _)
trailing_zeros_from(self, i) ==
    IF i > N THEN 0
    ELSE IF self[i] # 0 THEN digit_trailing_zeros(self[i], BITS)
    ELSE BITS + trailing_zeros_from(self, i + 1)

trailing_zeros(self) == trailing_zeros_from(self, 1)

is_sign_negative(self) == is_negative(to_int(self))

is_finite(self) == ~eq(bitand(to_bits(self), FINITE_MASK), FINITE_MASK)

is_nan(self) == ~is_finite(self) /\ trailing_zeros(to_bits(self)) < MB

is_quiet_nan(self) == eq(bitand(to_bits(self), Q_NAN_MASK), Q_NAN_MASK)

is_signalling_nan(self) == eq(bitand(to_bits(self), Q_NAN_MASK), to_bits(INFINITY))

\* while i < W - 1 { if self.words()[i] != 0 { return false; } i += 1; }
RECURSIVE Float_is_zero_loop(_, _)
Float_is_zero_loop(self, i) ==
    IF i < N - 1
    THEN IF self[i + 1] # 0 THEN FALSE ELSE Float_is_zero_loop(self, i + 1)
    ELSE digit_trailing_zeros(self[N], BITS) >= BITS - 1

\* Float::is_zero: +0 or -0
Float_is_zero(self) == Float_is_zero_loop(self, 0)

\* a classification that keeps the sign bit
classify_signed(self) ==
    LET u == to_bits(self)
    IN  IF is_zero(u) THEN Res("Zero", <<>>)
        ELSE IF eq(u, to_bits(INFINITY)) THEN Res("Infinite", <<>>)
        ELSE LET v == bitand(u, FINITE_MASK)
             IN  IF is_zero(v) THEN Res("Subnormal", <<>>)
                 ELSE IF eq(v, FINITE_MASK) THEN Res("Nan", <<>>)
                 ELSE Res("Normal", <<>>)

\* Float::classify -> FpCategory
classify(self) ==
    LET u == to_bits(abs(self))
    IN  IF is_zero(u) THEN Res("Zero", <<>>)
        ELSE IF eq(u, to_bits(INFINITY)) THEN Res("Infinite", <<>>)
        ELSE LET v == bitand(u, FINITE_MASK)
             IN  IF is_zero(v) THEN Res("Subnormal", <<>>)
                 ELSE IF eq(v, FINITE_MASK) THEN Res("Nan", <<>>)
                 ELSE Res("Normal", <<>>)

\* a total comparison that never reverses
total_cmp_no_reverse(self, other) == Bint_cmp(to_int(self), to_int(other))

\* Float::total_cmp
total_cmp(self, other) ==
    LET left == to_int(self)
        right == to_int(other)
    IN  IF is_negative(left) /\ is_negative(right)
        THEN reverse(Bint_cmp(left, right))
        ELSE Bint_cmp(left, right)

\* handle_nan!(ret; a, b): return ret if a or b is NaN
handle_nan(a, b) == is_nan(a) \/ is_nan(b)

\* an equality of bit patterns alone
Float_eq_bitwise(self, other) == eq(to_bits(self), to_bits(other))

\* PartialEq::eq for Float
Float_eq(self, other) ==
    IF handle_nan(self, other) THEN FALSE
    ELSE (Float_is_zero(self) /\ Float_is_zero(other)) \/ eq(to_bits(self), to_bits(other))

\* PartialOrd::partial_cmp for Float
Float_partial_cmp(self, other) ==
    IF handle_nan(self, other) THEN None
    ELSE IF Float_is_zero(self) /\ Float_is_zero(other) THEN Some(<<Equal>>)
    ELSE Some(<<total_cmp(self, other)>>)

(***************************************************************************)
(* float/cmp.rs: max, min, maximum, minimum, clamp; float/classify.rs: the *)
(* remaining predicates                                                    *)
(***************************************************************************)

\* PartialOrd::lt, gt and le, the provided methods behind <, > and <=
Float_lt(self, other) == Float_partial_cmp(self, other) = Some(<<Less>>)

Float_gt(self, other) == Float_partial_cmp(self, other) = Some(<<Greater>>)

Float_le(self, other) ==
    Float_partial_cmp(self, other) \in {Some(<<Less>>), Some(<<Equal>>)}

\* a max that passes a NaN on instead of the other operand
Float_max_nan_first(self, other) ==
    IF is_nan(self) THEN self
    ELSE IF is_nan(other) THEN other
    ELSE IF Float_lt(self, other) THEN other
    ELSE self

\* Float::max: handle_nan!(other; self); handle_nan!(self; other);
Float_max(self, other) ==
    IF is_nan(self) THEN other
    ELSE IF is_nan(other) THEN self
    ELSE IF Float_lt(self, other) THEN other
    ELSE self

\* a min that answers with other unless self is smaller
Float_min_prefers_other(self, other) ==
    IF is_nan(self) THEN other
    ELSE IF is_nan(other) THEN self
    ELSE IF Float_lt(self, other) THEN self
    ELSE other

\* Float::min
Float_min(self, other) ==
    IF is_nan(self) THEN other
    ELSE IF is_nan(other) THEN self
    ELSE IF Float_gt(self, other) THEN other
    ELSE self

\* a maximum that selects by the partial order, under which +0 and -0 are equal
maximum_partial(self, other) ==
    IF is_nan(self) THEN self
    ELSE IF is_nan(other) THEN other
    ELSE IF Float_lt(self, other) THEN other
    ELSE self

\* Float::maximum: handle_nan!(self; self); handle_nan!(other; other);
maximum(self, other) ==
    IF is_nan(self) THEN self
    ELSE IF is_nan(other) THEN other
    ELSE IF total_cmp(self, other) = Less THEN other
    ELSE self

\* a minimum that looks for a NaN in other first
minimum_other_nan_first(self, other) ==
    IF is_nan(other) THEN other
    ELSE IF is_nan(self) THEN self
    ELSE IF total_cmp(self, other) = Greater THEN other
    ELSE self

\* Float::minimum
minimum(self, other) ==
    IF is_nan(self) THEN self
    ELSE IF is_nan(other) THEN other
    ELSE IF total_cmp(self, other) = Greater THEN other
    ELSE self

\* a clamp whose assertion lets an unordered pair of bounds through
Float_clamp_lenient(self, lo, hi) ==
    IF Float_gt(lo, hi) THEN Panic
    ELSE LET x == IF Float_lt(self, lo) THEN lo ELSE self
         IN  Res("Val", IF Float_gt(x, hi) THEN hi ELSE x)

\* Float::clamp: assert!(min <= max) aborts the call
Float_clamp(self, lo, hi) ==
    IF ~Float_le(lo, hi) THEN Panic
    ELSE LET x == IF Float_lt(self, lo) THEN lo ELSE self
         IN  Res("Val", IF Float_gt(x, hi) THEN hi ELSE x)

\* Digit::leading_zeros: BITS for zero
RECURSIVE digit_leading_zeros(_)
digit_leading_zeros(d) ==
    IF d = 0 THEN BITS ELSE digit_leading_zeros(d \div 2) - 1

\* BUint::leading_zeros: N * BITS for zero
RECURSIVE leading_zeros_from(_, _)
leading_zeros_from(self, i) ==
    IF i = 0 THEN 0
    ELSE IF self[i] # 0 THEN digit_leading_zeros(self[i])
    ELSE BITS + leading_zeros_from(self, i - 1)

leading_zeros(self) == leading_zeros_from(self, N)

is_sign_positive(self) == ~is_sign_negative(self)

\* an infinity test that keeps the sign bit
is_infinite_signed(self) == eq(to_bits(self), FINITE_MASK)

is_infinite(self) == eq(to_bits(abs(self)), FINITE_MASK)

\* lz < Self::BITS && lz > Self::EXPONENT_BITS
is_subnormal(self) ==
    LET lz == leading_zeros(to_bits(abs(self)))
    IN  lz < N * BITS /\ lz > EXPONENT_BITS

is_normal(self) == classify(self) = Res("Normal", <<>>)

(***************************************************************************)
(* The state: the inputs of a call or of a chain of calls (self, rhs,      *)
(* radix, the byte buffer buf), the build setting checks, the calls made   *)
(* so far (hist), the result of the last one (res) and of the one before   *)
(* it (prev).  input says what                                             *)
(* the caller supplied: "value" (self), "digits" (buf, a digit slice),     *)
(* "str" (buf, the bytes of a str), "operands" (self and rhs),             *)
(* "ordered" (self, rhs and third, integers to compare and clamp) or       *)
(* "floats" (self, rhs and third, bit patterns of Float<W, MB>).           *)
(***************************************************************************)
VARIABLES input, self, rhs, third, radix, buf, checks, hist, res, prev

vars == <<input, self, rhs, third, radix, buf, checks, hist, res, prev>>

NoRes == Res("none", <<>>)

\* p, p * r, p * r * r, ... below Limit
RECURSIVE PowersBelowLimit(_, _)
PowersBelowLimit(r, p) ==
    IF p > (Limit - 1) \div r THEN {p} ELSE {p} \cup PowersBelowLimit(r, p * r)

\* digit patterns with no structure in any radix
PatternSeeds == 1..12

\* the values formatted: the ends of the range, the neighbours of every power of
\* two and of every power of the radix, and a few patterns
SampleValues(r) ==
    {v \in {p + e : p \in PowersBelowLimit(2, 1) \cup PowersBelowLimit(r, 1), e \in {-1, 0, 1}}
        : v < Limit}
    \cup {Limit - 1}
    \cup {Value([i \in 1..N |-> (s * i * 41 + 13 * s) % DigitBase]) : s \in PatternSeeds}

ByteRadixes == 2..256

StrRadixes == 2..36

\* radixes outside 2..=36 with which the formatting functions can be called:
\* 1 is outside 2..=256 as well
UnsupportedRadixes == {1, 37}

InitRoundTrip ==
    /\ input = "value"
    /\ radix \in ByteRadixes
    /\ self \in {ToDigits(v) : v \in SampleValues(radix)}
    /\ rhs = ZERO
    /\ third = ZERO
    /\ buf = <<>>
    /\ checks \in BOOLEAN
    /\ hist = <<>>
    /\ res = NoRes
    /\ prev = NoRes

ToRadixLe ==
    /\ input = "value"
    /\ hist = <<>>
    /\ radix \in ByteRadixes \cup UnsupportedRadixes
    /\ res' = IF to_radix_le_aborts(self, radix) THEN Panic
              ELSE Res("Vec", to_radix_le(self, radix))
    /\ buf' = res'.val
    /\ hist' = <<"to_radix_le">>
    /\ prev' = res
    /\ UNCHANGED <<input, self, rhs, third, radix, checks>>

ToRadixBe ==
    /\ input = "value"
    /\ hist = <<>>
    /\ radix \in ByteRadixes \cup UnsupportedRadixes
    /\ res' = IF to_radix_le_aborts(self, radix) THEN Panic
              ELSE Res("Vec", to_radix_be(self, radix))
    /\ buf' = res'.val
    /\ hist' = <<"to_radix_be">>
    /\ prev' = res
    /\ UNCHANGED <<input, self, rhs, third, radix, checks>>

ToStrRadix ==
    /\ input = "value"
    /\ hist = <<>>
    /\ radix \in StrRadixes \cup UnsupportedRadixes
    /\ res' = IF to_radix_le_aborts(self, radix) THEN Panic
              ELSE Res("Vec", to_str_radix(self, radix))
    /\ buf' = res'.val
    /\ hist' = <<"to_str_radix">>
    /\ prev' = res
    /\ UNCHANGED <<input, self, rhs, third, radix, checks>>

\* from_radix_le of the digits to_radix_le returned
FromRadixLeOfOutput ==
    /\ hist = <<"to_radix_le">>
    /\ res' = from_radix_le(buf, radix, checks)
    /\ hist' = Append(hist, "from_radix_le")
    /\ prev' = res
    /\ UNCHANGED <<input, self, rhs, third, radix, buf, checks>>

FromRadixBeOfOutput ==
    /\ hist = <<"to_radix_be">>
    /\ res' = from_radix_be(buf, radix, checks)
    /\ hist' = Append(hist, "from_radix_be")
    /\ prev' = res
    /\ UNCHANGED <<input, self, rhs, third, radix, buf, checks>>

FromStrRadixOfOutput ==
    /\ hist = <<"to_str_radix">>
    /\ res' = from_str_radix(buf, radix, checks)
    /\ hist' = Append(hist, "from_str_radix")
    /\ prev' = res
    /\ UNCHANGED <<input, self, rhs, third, radix, buf, checks>>

NextRoundTrip ==
    \/ ToRadixLe
    \/ ToRadixBe
    \/ ToStrRadix
    \/ FromRadixLeOfOutput
    \/ FromRadixBeOfOutput
    \/ FromStrRadixOfOutput

SpecRoundTrip == InitRoundTrip /\ [][NextRoundTrip]_vars

\* the three code paths of to_radix_le / from_radix_le
PathExact(r) == is_power_of_two(r) /\ BITS % ilog2(r) = 0

PathInexact(r) == is_power_of_two(r) /\ BITS % ilog2(r) # 0

PathBigBase(r) == ~is_power_of_two(r)

\* C1: a value formatted by to_radix_le / to_radix_be in a radix of 2..=256 and
\* parsed back by from_radix_le / from_radix_be in that radix is Some(value)
C1_ByteRadixRoundTrip ==
    (hist = <<"to_radix_le", "from_radix_le">> \/ hist = <<"to_radix_be", "from_radix_be">>)
        => res = Some(self)

\* C1 witness: MAX went through the inexact power-of-two path, big-endian, and
\* came back
C1_Witness ==
    /\ hist = <<"to_radix_be", "from_radix_be">>
    /\ PathInexact(radix)
    /\ self = MAX
    /\ Len(buf) > N
    /\ res = Some(MAX)

\* C2: a value formatted by to_str_radix in a radix of 2..=36 and parsed back by
\* from_str_radix in that radix is Ok(value)
C2_StrRadixRoundTrip ==
    (hist = <<"to_str_radix", "from_str_radix">> /\ radix \in StrRadixes) => res = Ok(self)

\* C2 witness: a value whose string has letters and digits came back
C2_Witness ==
    /\ hist = <<"to_str_radix", "from_str_radix">>
    /\ PathBigBase(radix)
    /\ \E k \in 1..Len(buf) : buf[k] >= Bytea
    /\ \E k \in 1..Len(buf) : buf[k] < Bytea
    /\ Len(buf) > 2
    /\ res = Ok(self)

(***************************************************************************)
(* Parsing caller-supplied digit slices and strings                        *)
(***************************************************************************)

SeqsUpTo(S, n) == UNION {[1..k -> S] : k \in 0..n}

\* the radixes parsed: each code path, the smallest and the largest radix
ParseByteRadixes == {2, 3, 8, 10, 16, 32, 64, 100, 128, 255, 256}

ParseStrRadixes == {2, 8, 10, 16, 32, 36}

\* the digits a slice is made of: the smallest, the one with only the top bit of
\* a power-of-two radix, the largest, and the smallest invalid one
DigitAlphabet(r) == {0, 1, r \div 2, r - 1} \cup (IF r < 256 THEN {r} ELSE {})

LowerChar(d) == IF d < 10 THEN Byte0 + d ELSE Bytea + (d - 10)

UpperChar(d) == IF d < 10 THEN Byte0 + d ELSE ByteA + (d - 10)

\* the bytes a string is made of: '+', '0', the digits r / 2 and r - 1 (the last
\* in both cases) and the first character that is no digit of the radix ('-',
\* byte 45, for radix 36)
StrAlphabet(r) ==
    {BytePlus, Byte0, LowerChar(r \div 2), LowerChar(r - 1), UpperChar(r - 1),
     IF r < 36 THEN LowerChar(r) ELSE 45}

InitParse ==
    /\ \/ /\ input = "digits"
          /\ radix \in ParseByteRadixes
          /\ buf \in SeqsUpTo(DigitAlphabet(radix), MaxLen)
       \/ /\ input = "str"
          /\ radix \in ParseStrRadixes
          /\ buf \in SeqsUpTo(StrAlphabet(radix), MaxLen)
    /\ self = ZERO
    /\ rhs = ZERO
    /\ third = ZERO
    /\ checks \in BOOLEAN
    /\ hist = <<>>
    /\ res = NoRes
    /\ prev = NoRes

FromRadixLe ==
    /\ input = "digits"
    /\ hist = <<>>
    /\ res' = from_radix_le(buf, radix, checks)
    /\ hist' = <<"from_radix_le">>
    /\ prev' = res
    /\ UNCHANGED <<input, self, rhs, third, radix, buf, checks>>

FromRadixBe ==
    /\ input = "digits"
    /\ hist = <<>>
    /\ res' = from_radix_be(buf, radix, checks)
    /\ hist' = <<"from_radix_be">>
    /\ prev' = res
    /\ UNCHANGED <<input, self, rhs, third, radix, buf, checks>>

FromStrRadix ==
    /\ input = "str"
    /\ hist = <<>>
    /\ res' = from_str_radix(buf, radix, checks)
    /\ hist' = <<"from_str_radix">>
    /\ prev' = res
    /\ UNCHANGED <<input, self, rhs, third, radix, buf, checks>>

ParseBytes ==
    /\ input = "str"
    /\ hist = <<>>
    /\ res' = parse_bytes(buf, radix, checks)
    /\ hist' = <<"parse_bytes">>
    /\ prev' = res
    /\ UNCHANGED <<input, self, rhs, third, radix, buf, checks>>

\* FromStr::from_str takes no radix: it is called on the decimal strings
FromStr ==
    /\ input = "str"
    /\ radix = 10
    /\ hist = <<>>
    /\ res' = from_str(buf)
    /\ hist' = <<"from_str">>
    /\ prev' = res
    /\ UNCHANGED <<input, self, rhs, third, radix, buf, checks>>

\* to_radix_le of the value from_radix_le returned
ToRadixLeOfParsed ==
    /\ hist = <<"from_radix_le">>
    /\ res.tag = "Some"
    /\ res' = IF to_radix_le_aborts(res.val, radix) THEN Panic
              ELSE Res("Vec", to_radix_le(res.val, radix))
    /\ hist' = Append(hist, "to_radix_le")
    /\ prev' = res
    /\ UNCHANGED <<input, self, rhs, third, radix, buf, checks>>

ToRadixBeOfParsed ==
    /\ hist = <<"from_radix_be">>
    /\ res.tag = "Some"
    /\ res' = IF to_radix_le_aborts(res.val, radix) THEN Panic
              ELSE Res("Vec", to_radix_be(res.val, radix))
    /\ hist' = Append(hist, "to_radix_be")
    /\ prev' = res
    /\ UNCHANGED <<input, self, rhs, third, radix, buf, checks>>

ToStrRadixOfParsed ==
    /\ hist = <<"from_str_radix">>
    /\ res.tag = "Ok"
    /\ res' = IF to_radix_le_aborts(res.val, radix) THEN Panic
              ELSE Res("Vec", to_str_radix(res.val, radix))
    /\ hist' = Append(hist, "to_str_radix")
    /\ prev' = res
    /\ UNCHANGED <<input, self, rhs, third, radix, buf, checks>>

NextParse ==
    \/ FromRadixLe
    \/ FromRadixBe
    \/ FromStrRadix
    \/ ParseBytes
    \/ FromStr
    \/ ToRadixLeOfParsed
    \/ ToRadixBeOfParsed
    \/ ToStrRadixOfParsed

SpecParse == InitParse /\ [][NextParse]_vars

(***************************************************************************)
(* Calls with a radix outside the supported range                          *)
(***************************************************************************)

\* radixes outside 2..=256, and outside 2..=36, given to the parsing functions
UnsupportedByteRadixes == {0, 1, 257}

UnsupportedStrRadixes == {0, 1, 37}

\* the bytes of the strings parsed in an unsupported radix: '+', '0', 'a' and a
\* byte that is not ASCII
RangeStrAlphabet == {BytePlus, Byte0, Bytea, U8MAX}

InitRadixRange ==
    /\ \/ /\ input = "value"
          /\ radix \in UnsupportedRadixes
          /\ self \in {ToDigits(v) : v \in SampleValues(2)}
          /\ buf = <<>>
       \/ /\ input = "digits"
          /\ radix \in UnsupportedByteRadixes
          /\ self = ZERO
          /\ buf \in SeqsUpTo({0, 1, U8MAX}, 2)
       \/ /\ input = "str"
          /\ radix \in UnsupportedStrRadixes
          /\ self = ZERO
          /\ buf \in SeqsUpTo(RangeStrAlphabet, 2)
    /\ rhs = ZERO
    /\ third = ZERO
    /\ checks \in BOOLEAN
    /\ hist = <<>>
    /\ res = NoRes
    /\ prev = NoRes

NextRadixRange ==
    \/ ToRadixLe
    \/ ToRadixBe
    \/ ToStrRadix
    \/ FromRadixLe
    \/ FromRadixBe
    \/ FromStrRadix
    \/ ParseBytes

SpecRadixRange == InitRadixRange /\ [][NextRadixRange]_vars

\* the digit a character stands for: '0'-'9' are 0-9, letters of either case are
\* 10-35, anything else is no digit (36)
CharDigit(byte) ==
    IF byte \in 48..57 THEN byte - 48
    ELSE IF byte \in 97..122 THEN byte - 87
    ELSE IF byte \in 65..90 THEN byte - 55
    ELSE 36

\* a string without its one optional leading '+'
Unsigned(s) == IF Len(s) > 0 /\ s[1] = 43 THEN Tail(s) ELSE s

\* the big-endian digits the parsed input stands for
InputDigitsBe ==
    IF input = "str" THEN [k \in 1..Len(Unsigned(buf)) |-> CharDigit(Unsigned(buf)[k])]
    ELSE IF hist = <<"from_radix_le">> THEN Rev(buf)
    ELSE buf

\* min(Limit, the positional value of big-endian digits)
RECURSIVE CappedValueBe(_, _, _)
CappedValueBe(ds, r, acc) ==
    IF Len(ds) = 0 THEN acc
    ELSE IF acc > (Limit - 1 - ds[1]) \div r THEN Limit
    ELSE CappedValueBe(Tail(ds), r, acc * r + ds[1])

AllValid(ds, r) == \A k \in 1..Len(ds) : ds[k] < r

Parsed == hist \in {<<"from_radix_le">>, <<"from_radix_be">>, <<"from_str_radix">>}

\* C3: a non-empty sequence of valid digits whose positional value V fits is
\* parsed to Some(V) / Ok(V), leading zeros, one leading '+' and letters of
\* either case included; the empty slice is Some(ZERO)
C3_ParsePositionalValue ==
    /\ (Parsed /\ Len(InputDigitsBe) > 0 /\ AllValid(InputDigitsBe, radix)
            /\ CappedValueBe(InputDigitsBe, radix, 0) < Limit)
        => res = Res(IF input = "str" THEN "Ok" ELSE "Some",
                     ToDigits(CappedValueBe(InputDigitsBe, radix, 0)))
    /\ (Parsed /\ input = "digits" /\ buf = <<>>) => res = Some(ZERO)

\* C4: a sequence of valid digits whose positional value does not fit is parsed
\* to None / Err(PosOverflow), never to a value
C4_OversizeReported ==
    (Parsed /\ AllValid(InputDigitsBe, radix)
        /\ CappedValueBe(InputDigitsBe, radix, 0) >= Limit)
        => res = (IF input = "str" THEN Err("Err_PosOverflow") ELSE None)

\* C5: from_str_radix is Err(Empty) for "" and "+", and Err(InvalidDigit) when a
\* byte after the optional '+' is no digit of the radix, whatever the length;
\* from_radix_be / from_radix_le are None when an element is >= radix
C5_InvalidClassified ==
    /\ (hist = <<"from_str_radix">> /\ Unsigned(buf) = <<>>) => res = Err("Err_Empty")
    /\ (hist = <<"from_str_radix">> /\ Unsigned(buf) # <<>>
            /\ ~AllValid(InputDigitsBe, radix))
        => res = Err("Err_InvalidDigit")
    /\ (hist \in {<<"from_radix_le">>, <<"from_radix_be">>} /\ ~AllValid(buf, radix))
        => res = None

\* C5 witness: a string too long to fit whose last byte is no digit was
\* classified InvalidDigit
C5_Witness ==
    /\ hist = <<"from_str_radix">>
    /\ Len(buf) = MaxLen
    /\ radix = 36
    /\ \A k \in 1..(MaxLen - 1) : CharDigit(buf[k]) = radix - 1
    /\ CharDigit(buf[MaxLen]) >= radix
    /\ res = Err("Err_InvalidDigit")

\* C6: every parsing call returns a value or an error; none aborts
C6_ParsingNeverAborts ==
    hist \in {<<"from_radix_le">>, <<"from_radix_be">>, <<"from_str_radix">>,
              <<"parse_bytes">>, <<"from_str">>}
        => res.tag # "Panic"

\* C7: FromStr::from_str(s) returns what from_str_radix(s, 10) returns
C7_FromStrIsRadix10 ==
    hist = <<"from_str">> => res = from_str_radix(buf, 10, checks)

(***************************************************************************)
(* Arithmetic on caller-supplied operands                                  *)
(***************************************************************************)

\* the digits operands are made of
ArithDigits == {0, 1, 2, 127, 128, 255}

ArithValues == [1..N -> ArithDigits]

InitArith ==
    /\ input = "operands"
    /\ self \in ArithValues
    /\ rhs \in ArithValues
    /\ third = ZERO
    /\ radix = 10
    /\ buf = <<>>
    /\ checks \in BOOLEAN
    /\ hist = <<>>
    /\ res = NoRes
    /\ prev = NoRes

\* the right operand is a single Digit
DigitOperand == rhs = from_digit(rhs[1])

OverflowingAdd ==
    /\ input = "operands"
    /\ hist = <<>>
    /\ res' = Res(IF overflowing_add(self, rhs)[2] THEN "Overflow" ELSE "NoOverflow",
                  overflowing_add(self, rhs)[1])
    /\ hist' = <<"overflowing_add">>
    /\ prev' = res
    /\ UNCHANGED <<input, self, rhs, third, radix, buf, checks>>

\* the other members of the family, alone or after overflowing_add
CheckedAdd ==
    /\ input = "operands"
    /\ hist \in {<<>>, <<"overflowing_add">>}
    /\ res' = CheckedAdd_checked_add(self, rhs)
    /\ hist' = Append(hist, "checked_add")
    /\ prev' = res
    /\ UNCHANGED <<input, self, rhs, third, radix, buf, checks>>

WrappingAdd ==
    /\ input = "operands"
    /\ hist \in {<<>>, <<"overflowing_add">>}
    /\ res' = Res("Val", WrappingAdd_wrapping_add(self, rhs))
    /\ hist' = Append(hist, "wrapping_add")
    /\ prev' = res
    /\ UNCHANGED <<input, self, rhs, third, radix, buf, checks>>

SaturatingAdd ==
    /\ input = "operands"
    /\ hist \in {<<>>, <<"overflowing_add">>}
    /\ res' = Res("Val", SaturatingAdd_saturating_add(self, rhs))
    /\ hist' = Append(hist, "saturating_add")
    /\ prev' = res
    /\ UNCHANGED <<input, self, rhs, third, radix, buf, checks>>

AddDigit ==
    /\ input = "operands"
    /\ DigitOperand
    /\ hist = <<>>
    /\ res' = Res("Val", add_digit(self, rhs[1]))
    /\ hist' = <<"add_digit">>
    /\ prev' = res
    /\ UNCHANGED <<input, self, rhs, third, radix, buf, checks>>

Div ==
    /\ input = "operands"
    /\ hist = <<>>
    /\ res' = div(self, rhs)
    /\ hist' = <<"div">>
    /\ prev' = res
    /\ UNCHANGED <<input, self, rhs, third, radix, buf, checks>>

\* a % b, alone or after a / b
Rem ==
    /\ input = "operands"
    /\ hist \in {<<>>, <<"div">>}
    /\ res' = rem(self, rhs)
    /\ hist' = Append(hist, "rem")
    /\ prev' = res
    /\ UNCHANGED <<input, self, rhs, third, radix, buf, checks>>

DivDigit ==
    /\ input = "operands"
    /\ DigitOperand
    /\ hist = <<>>
    /\ res' = div_by_digit(self, rhs[1])
    /\ hist' = <<"div_digit">>
    /\ prev' = res
    /\ UNCHANGED <<input, self, rhs, third, radix, buf, checks>>

RemDigit ==
    /\ input = "operands"
    /\ DigitOperand
    /\ hist \in {<<>>, <<"div_digit">>}
    /\ res' = rem_by_digit(self, rhs[1])
    /\ hist' = Append(hist, "rem_digit")
    /\ prev' = res
    /\ UNCHANGED <<input, self, rhs, third, radix, buf, checks>>

Bitand ==
    /\ input = "operands"
    /\ hist = <<>>
    /\ res' = Res("Val", bitand(self, rhs))
    /\ hist' = <<"bitand">>
    /\ prev' = res
    /\ UNCHANGED <<input, self, rhs, third, radix, buf, checks>>

Bitor ==
    /\ input = "operands"
    /\ hist = <<>>
    /\ res' = Res("Val", bitor(self, rhs))
    /\ hist' = <<"bitor">>
    /\ prev' = res
    /\ UNCHANGED <<input, self, rhs, third, radix, buf, checks>>

Bitxor ==
    /\ input = "operands"
    /\ hist = <<>>
    /\ res' = Res("Val", bitxor(self, rhs))
    /\ hist' = <<"bitxor">>
    /\ prev' = res
    /\ UNCHANGED <<input, self, rhs, third, radix, buf, checks>>

\* !a, alone or applied to the result of !a
Not ==
    /\ input = "operands"
    /\ hist \in {<<>>, <<"not">>}
    /\ res' = Res("Val", not(IF hist = <<>> THEN self ELSE res.val))
    /\ hist' = Append(hist, "not")
    /\ prev' = res
    /\ UNCHANGED <<input, self, rhs, third, radix, buf, checks>>

NextArith ==
    \/ OverflowingAdd
    \/ CheckedAdd
    \/ WrappingAdd
    \/ SaturatingAdd
    \/ AddDigit
    \/ Div
    \/ Rem
    \/ DivDigit
    \/ RemDigit
    \/ Bitand
    \/ Bitor
    \/ Bitxor
    \/ Not

SpecArith == InitArith /\ [][NextArith]_vars

\* the mathematical sum of the operands
Sum == Value(self) + Value(rhs)

Last == IF hist = <<>> THEN "" ELSE hist[Len(hist)]

\* C8: checked_add is None exactly when overflowing_add reports overflow; then
\* wrapping_add and overflowing_add.0 are (a + b) mod 2^(N * BITS) and
\* saturating_add is MAX; otherwise all four are a + b
C8_AddFamilyConsistent ==
    /\ Last = "overflowing_add"
        => /\ (res.tag = "Overflow") = (Sum >= Limit)
           /\ Value(res.val) = Sum % Limit
    /\ Last = "checked_add"
        => /\ res = (IF Sum >= Limit THEN None ELSE Some(ToDigits(Sum)))
           /\ Len(hist) = 2 => (res.tag = "None") = (prev.tag = "Overflow")
    /\ Last = "wrapping_add"
        => /\ res.val = ToDigits(Sum % Limit)
           /\ Len(hist) = 2 => res.val = prev.val
    /\ Last = "saturating_add"
        => /\ res.val = (IF Sum >= Limit THEN MAX ELSE ToDigits(Sum))
           /\ (Len(hist) = 2 /\ prev.tag = "Overflow") => res.val = MAX
           /\ (Len(hist) = 2 /\ prev.tag = "NoOverflow") => res.val = prev.val

\* C8 witness: an addition that overflowed with a carry through every digit was
\* reported by overflowing_add and refused by checked_add
C8_Witness ==
    /\ hist = <<"overflowing_add", "checked_add">>
    /\ self = MAX
    /\ Value(rhs) > 1
    /\ prev.tag = "Overflow"
    /\ Value(prev.val) = Value(rhs) - 1
    /\ res = None

\* C9: BUint + Digit carries through every digit:
\* value(a + d) = (value(a) + d) mod 2^(N * BITS)
C9_AddDigitCarries ==
    hist = <<"add_digit">> => Value(res.val) = (Value(self) + rhs[1]) % Limit

\* C10: for a nonzero divisor, q = a / b and r = a % b satisfy a = q * b + r and
\* 0 <= r < b, for a BUint divisor and for a single Digit
C10_DivisionIdentity ==
    /\ (hist = <<"div", "rem">> /\ ~is_zero(rhs))
        => /\ prev.tag = "Val" /\ res.tag = "Val"
           /\ Value(self) = Value(prev.val) * Value(rhs) + Value(res.val)
           /\ Value(res.val) < Value(rhs)
    /\ (hist = <<"div_digit", "rem_digit">> /\ rhs[1] # 0)
        => /\ prev.tag = "Val" /\ res.tag = "Digit"
           /\ Value(self) = Value(prev.val) * rhs[1] + res.val[1]
           /\ res.val[1] < rhs[1]

\* C10 witness: a multi-digit dividend divided by a multi-digit divisor with a
\* quotient above one and a nonzero remainder
C10_Witness ==
    /\ hist = <<"div", "rem">>
    /\ last_digit_index(rhs) > 0
    /\ Value(prev.val) > 1
    /\ Value(res.val) > 0
    /\ Value(self) = Value(prev.val) * Value(rhs) + Value(res.val)


Bit(d, k) == (d \div Pow(2, k)) % 2

\* C16: AND, OR, XOR and NOT are digit-wise with no carry: bit k of output
\* digit i is the function of bit k of the input digits at index i only; hence
\* !(!a) = a, a ^ a = ZERO, a & MAX = a and a | ZERO = a
C16_BitwiseDigitwise ==
    /\ Last = "bitand"
        => /\ \A i \in 1..N, k \in 0..(BITS - 1) :
                Bit(res.val[i], k) = Bit(self[i], k) * Bit(rhs[i], k)
           /\ rhs = MAX => res.val = self
    /\ Last = "bitor"
        => /\ \A i \in 1..N, k \in 0..(BITS - 1) :
                Bit(res.val[i], k) = IF Bit(self[i], k) + Bit(rhs[i], k) > 0 THEN 1 ELSE 0
           /\ rhs = ZERO => res.val = self
    /\ Last = "bitxor"
        => /\ \A i \in 1..N, k \in 0..(BITS - 1) :
                Bit(res.val[i], k) = (Bit(self[i], k) + Bit(rhs[i], k)) % 2
           /\ rhs = self => res.val = ZERO
    /\ hist = <<"not">>
        => \A i \in 1..N, k \in 0..(BITS - 1) : Bit(res.val[i], k) = 1 - Bit(self[i], k)
    /\ hist = <<"not", "not">> => res.val = self

\* C16 witness: two operands with a common set bit in the lowest digit, whose
\* sum would carry into the next digit, were combined by OR
C16_Witness ==
    /\ hist = <<"bitor">>
    /\ self[1] = DigitMax
    /\ rhs[1] = 1
    /\ res.val[1] = DigitMax
    /\ res.val[N] = 0


(***************************************************************************)
(* Comparing, selecting and clamping: cmp, eq, partial_cmp, max, min and   *)
(* clamp(self, min, max) with min = rhs and max = third.                   *)
(***************************************************************************)
CmpDigits == {0, 1, 127, 128, 255}

CmpValues == [1..N -> CmpDigits]

\* upper bounds for clamp
ClampBounds ==
    {ZERO, from_digit(DigitMax), [i \in 1..N |-> IF i = N THEN 128 ELSE 0], MAX}

InitCmp ==
    /\ input = "ordered"
    /\ self \in CmpValues
    /\ rhs \in CmpValues
    /\ third \in ClampBounds
    /\ radix = 10
    /\ buf = <<>>
    /\ checks \in BOOLEAN
    /\ hist = <<>>
    /\ res = NoRes
    /\ prev = NoRes

CallCmp ==
    /\ input = "ordered"
    /\ hist = <<>>
    /\ res' = Ordering(cmp(self, rhs))
    /\ hist' = <<"cmp">>
    /\ prev' = res
    /\ UNCHANGED <<input, self, rhs, third, radix, buf, checks>>

\* a == b, alone or after cmp
CallEq ==
    /\ input = "ordered"
    /\ hist \in {<<>>, <<"cmp">>}
    /\ res' = Bool(eq(self, rhs))
    /\ hist' = Append(hist, "eq")
    /\ prev' = res
    /\ UNCHANGED <<input, self, rhs, third, radix, buf, checks>>

\* partial_cmp, alone or after cmp
CallPartialCmp ==
    /\ input = "ordered"
    /\ hist \in {<<>>, <<"cmp">>}
    /\ res' = partial_cmp(self, rhs)
    /\ hist' = Append(hist, "partial_cmp")
    /\ prev' = res
    /\ UNCHANGED <<input, self, rhs, third, radix, buf, checks>>

CallBintCmp ==
    /\ input = "ordered"
    /\ hist = <<>>
    /\ res' = Ordering(Bint_cmp(self, rhs))
    /\ hist' = <<"Bint_cmp">>
    /\ prev' = res
    /\ UNCHANGED <<input, self, rhs, third, radix, buf, checks>>

CallMax ==
    /\ input = "ordered"
    /\ hist = <<>>
    /\ res' = Res("Val", max(self, rhs))
    /\ hist' = <<"max">>
    /\ prev' = res
    /\ UNCHANGED <<input, self, rhs, third, radix, buf, checks>>

CallMin ==
    /\ input = "ordered"
    /\ hist = <<>>
    /\ res' = Res("Val", min(self, rhs))
    /\ hist' = <<"min">>
    /\ prev' = res
    /\ UNCHANGED <<input, self, rhs, third, radix, buf, checks>>

CallClamp ==
    /\ input = "ordered"
    /\ hist = <<>>
    /\ res' = clamp(self, rhs, third)
    /\ hist' = <<"clamp">>
    /\ prev' = res
    /\ UNCHANGED <<input, self, rhs, third, radix, buf, checks>>

NextCmp ==
    \/ CallCmp
    \/ CallEq
    \/ CallPartialCmp
    \/ CallBintCmp
    \/ CallMax
    \/ CallMin
    \/ CallClamp

SpecCmp == InitCmp /\ [][NextCmp]_vars

\* the order of two numbers
NumOrd(x, y) == IF x < y THEN Less ELSE IF x > y THEN Greater ELSE Equal

\* C12: cmp is the numeric order of the values; eq holds iff all N digits
\* match iff cmp is Equal; partial_cmp is Some(cmp); so exactly one of a < b,
\* a == b, a > b holds
C12_BUintOrderNumeric ==
    /\ Last = "cmp" => res = Ordering(NumOrd(Value(self), Value(rhs)))
    /\ Last = "eq"
        => /\ (res.tag = "true") = (\A i \in 1..N : self[i] = rhs[i])
           /\ Len(hist) = 2 => (res.tag = "true") = (prev.val[1] = Equal)
           /\ Len(hist) = 2
                => Cardinality({c \in {"lt", "eq", "gt"} :
                        \/ c = "lt" /\ prev.val[1] = Less
                        \/ c = "eq" /\ res.tag = "true"
                        \/ c = "gt" /\ prev.val[1] = Greater}) = 1
    /\ Last = "partial_cmp"
        => /\ res = Some(<<NumOrd(Value(self), Value(rhs))>>)
           /\ Len(hist) = 2 => res = Some(prev.val)

\* C12 witness: the operands differ in both digits at the ends, in opposite
\* directions, and the most significant digit decided
C12_Witness ==
    /\ hist = <<"cmp", "eq">>
    /\ self[1] > rhs[1]
    /\ self[N] < rhs[N]
    /\ prev = Ordering(Less)
    /\ res.tag = "false"

\* the two's-complement value of a digit sequence
SignedValue(digits) ==
    IF Value(digits) >= Limit \div 2 THEN Value(digits) - Limit ELSE Value(digits)

\* C13: Bint::cmp is the order of the two's-complement values: top bit set is
\* below top bit clear, two negatives order as signed numbers, and exactly one
\* of a < b, a == b, a > b holds
C13_BIntOrderSigned ==
    Last = "Bint_cmp"
        => /\ res = Ordering(NumOrd(SignedValue(self), SignedValue(rhs)))
           /\ (res.val[1] = Equal) = (self = rhs)
           /\ (is_negative(self) /\ ~is_negative(rhs)) => res.val[1] = Less

\* C13 witness: two different negative values were compared
C13_Witness ==
    /\ hist = <<"Bint_cmp">>
    /\ is_negative(self)
    /\ is_negative(rhs)
    /\ SignedValue(self) < SignedValue(rhs)
    /\ res = Ordering(Less)

\* C14: max is the numerically greater operand, min the smaller; for
\* lo <= hi, clamp(x, lo, hi) is lo if x < lo, hi if x > hi and x otherwise,
\* so it lies in [lo, hi] and is x whenever x already does
C14_MaxMinClamp ==
    /\ Last = "max"
        => Value(res.val) = (IF Value(self) >= Value(rhs) THEN Value(self) ELSE Value(rhs))
    /\ Last = "min"
        => Value(res.val) = (IF Value(self) <= Value(rhs) THEN Value(self) ELSE Value(rhs))
    /\ (Last = "clamp" /\ Value(rhs) <= Value(third))
        => /\ res.tag = "Val"
           /\ Value(self) < Value(rhs) => res.val = rhs
           /\ Value(self) > Value(third) => res.val = third
           /\ (Value(rhs) <= Value(self) /\ Value(self) <= Value(third)) => res.val = self
           /\ Value(rhs) <= Value(res.val) /\ Value(res.val) <= Value(third)

\* C14 witness: a value above a proper interval was clamped to its upper end
C14_Witness ==
    /\ hist = <<"clamp">>
    /\ Value(rhs) < Value(third)
    /\ Value(third) < Value(self)
    /\ res = Res("Val", third)

\* C15: clamp(x, lo, hi) with lo > hi aborts for every x: no value comes back
\* and the bounds are not exchanged
C15_ClampInvertedAborts ==
    (Last = "clamp" /\ Value(rhs) > Value(third)) => res = Panic

\* C15 witness: clamp was called with min > max on a value lying between the
\* two, and aborted
C15_Witness ==
    /\ hist = <<"clamp">>
    /\ Value(third) < Value(self)
    /\ Value(self) < Value(rhs)
    /\ res = Panic


(***************************************************************************)
(* Classifying and comparing floats: self, rhs and third are bit patterns. *)
(***************************************************************************)
\* the largest exponent field: all ones
ExpMax == Pow(2, EXPONENT_BITS) - 1

\* the bit pattern with sign s, exponent field e and mantissa field m
FloatBits(s, e, m) == ToDigits(s * Pow(2, N * BITS - 1) + e * Pow(2, MB) + m)

\* both signs; the smallest and largest exponents; no, one or all mantissa bits
FloatSamples ==
    {FloatBits(s, e, m) : s \in 0..1, e \in {0, 1, ExpMax - 1, ExpMax},
                          m \in {0, Pow(2, MB) - 1} \cup {Pow(2, k) : k \in 0..(MB - 1)}}

FloatOperands ==
    {FloatBits(s, e, m) : s \in 0..1, e \in {0, 1, ExpMax}, m \in {0, 1, Pow(2, MB - 1)}}

FloatThirds ==
    {FloatBits(s, e, m) : s \in 0..1, e \in {0, ExpMax}, m \in {0, 1}}

InitFloat ==
    /\ input = "floats"
    /\ self \in FloatSamples
    /\ rhs \in FloatOperands
    /\ third \in FloatThirds
    /\ radix = 10
    /\ buf = <<>>
    /\ checks = TRUE
    /\ hist = <<>>
    /\ res = NoRes
    /\ prev = NoRes

Classify ==
    /\ input = "floats"
    /\ hist = <<>>
    /\ res' = classify(self)
    /\ hist' = <<"classify">>
    /\ prev' = res
    /\ UNCHANGED <<input, self, rhs, third, radix, buf, checks>>

\* is_nan, alone or after classify
IsNan ==
    /\ input = "floats"
    /\ hist \in {<<>>, <<"classify">>}
    /\ res' = Bool(is_nan(self))
    /\ hist' = Append(hist, "is_nan")
    /\ prev' = res
    /\ UNCHANGED <<input, self, rhs, third, radix, buf, checks>>

\* is_quiet_nan, alone or after is_nan
IsQuietNan ==
    /\ input = "floats"
    /\ hist \in {<<>>, <<"is_nan">>}
    /\ res' = Bool(is_quiet_nan(self))
    /\ hist' = Append(hist, "is_quiet_nan")
    /\ prev' = res
    /\ UNCHANGED <<input, self, rhs, third, radix, buf, checks>>

\* is_signalling_nan, alone or after is_nan or is_quiet_nan
IsSignallingNan ==
    /\ input = "floats"
    /\ hist \in {<<>>, <<"is_nan">>, <<"is_quiet_nan">>}
    /\ res' = Bool(is_signalling_nan(self))
    /\ hist' = Append(hist, "is_signalling_nan")
    /\ prev' = res
    /\ UNCHANGED <<input, self, rhs, third, radix, buf, checks>>

TotalCmp ==
    /\ input = "floats"
    /\ hist = <<>>
    /\ res' = Ordering(total_cmp(self, rhs))
    /\ hist' = <<"total_cmp">>
    /\ prev' = res
    /\ UNCHANGED <<input, self, rhs, third, radix, buf, checks>>

FloatEq ==
    /\ input = "floats"
    /\ hist = <<>>
    /\ res' = Bool(Float_eq(self, rhs))
    /\ hist' = <<"eq">>
    /\ prev' = res
    /\ UNCHANGED <<input, self, rhs, third, radix, buf, checks>>

\* partial_cmp, alone or after total_cmp
FloatPartialCmp ==
    /\ input = "floats"
    /\ hist \in {<<>>, <<"total_cmp">>}
    /\ res' = Float_partial_cmp(self, rhs)
    /\ hist' = Append(hist, "partial_cmp")
    /\ prev' = res
    /\ UNCHANGED <<input, self, rhs, third, radix, buf, checks>>

\* each predicate, alone or after classify
IsZero ==
    /\ input = "floats"
    /\ hist \in {<<>>, <<"classify">>}
    /\ res' = Bool(Float_is_zero(self))
    /\ hist' = Append(hist, "is_zero")
    /\ prev' = res
    /\ UNCHANGED <<input, self, rhs, third, radix, buf, checks>>

IsInfinite ==
    /\ input = "floats"
    /\ hist \in {<<>>, <<"classify">>}
    /\ res' = Bool(is_infinite(self))
    /\ hist' = Append(hist, "is_infinite")
    /\ prev' = res
    /\ UNCHANGED <<input, self, rhs, third, radix, buf, checks>>

IsSubnormal ==
    /\ input = "floats"
    /\ hist \in {<<>>, <<"classify">>}
    /\ res' = Bool(is_subnormal(self))
    /\ hist' = Append(hist, "is_subnormal")
    /\ prev' = res
    /\ UNCHANGED <<input, self, rhs, third, radix, buf, checks>>

IsNormal ==
    /\ input = "floats"
    /\ hist \in {<<>>, <<"classify">>}
    /\ res' = Bool(is_normal(self))
    /\ hist' = Append(hist, "is_normal")
    /\ prev' = res
    /\ UNCHANGED <<input, self, rhs, third, radix, buf, checks>>

IsFinite ==
    /\ input = "floats"
    /\ hist \in {<<>>, <<"classify">>}
    /\ res' = Bool(is_finite(self))
    /\ hist' = Append(hist, "is_finite")
    /\ prev' = res
    /\ UNCHANGED <<input, self, rhs, third, radix, buf, checks>>

IsSignNegative ==
    /\ input = "floats"
    /\ hist = <<>>
    /\ res' = Bool(is_sign_negative(self))
    /\ hist' = <<"is_sign_negative">>
    /\ prev' = res
    /\ UNCHANGED <<input, self, rhs, third, radix, buf, checks>>

\* is_sign_positive, alone or after is_sign_negative
IsSignPositive ==
    /\ input = "floats"
    /\ hist \in {<<>>, <<"is_sign_negative">>}
    /\ res' = Bool(is_sign_positive(self))
    /\ hist' = Append(hist, "is_sign_positive")
    /\ prev' = res
    /\ UNCHANGED <<input, self, rhs, third, radix, buf, checks>>

FloatMax ==
    /\ input = "floats"
    /\ hist = <<>>
    /\ res' = Res("Val", Float_max(self, rhs))
    /\ hist' = <<"max">>
    /\ prev' = res
    /\ UNCHANGED <<input, self, rhs, third, radix, buf, checks>>

FloatMin ==
    /\ input = "floats"
    /\ hist = <<>>
    /\ res' = Res("Val", Float_min(self, rhs))
    /\ hist' = <<"min">>
    /\ prev' = res
    /\ UNCHANGED <<input, self, rhs, third, radix, buf, checks>>

Maximum ==
    /\ input = "floats"
    /\ hist = <<>>
    /\ res' = Res("Val", maximum(self, rhs))
    /\ hist' = <<"maximum">>
    /\ prev' = res
    /\ UNCHANGED <<input, self, rhs, third, radix, buf, checks>>

Minimum ==
    /\ input = "floats"
    /\ hist = <<>>
    /\ res' = Res("Val", minimum(self, rhs))
    /\ hist' = <<"minimum">>
    /\ prev' = res
    /\ UNCHANGED <<input, self, rhs, third, radix, buf, checks>>

\* clamp(self, min, max) with min = rhs and max = third
FloatClamp ==
    /\ input = "floats"
    /\ hist = <<>>
    /\ res' = Float_clamp(self, rhs, third)
    /\ hist' = <<"clamp">>
    /\ prev' = res
    /\ UNCHANGED <<input, self, rhs, third, radix, buf, checks>>

NextFloat ==
    \/ Classify
    \/ IsNan
    \/ IsQuietNan
    \/ IsSignallingNan
    \/ TotalCmp
    \/ FloatEq
    \/ FloatPartialCmp
    \/ IsZero
    \/ IsInfinite
    \/ IsSubnormal
    \/ IsNormal
    \/ IsFinite
    \/ IsSignNegative
    \/ IsSignPositive
    \/ FloatMax
    \/ FloatMin
    \/ Maximum
    \/ Minimum
    \/ FloatClamp

SpecFloat == InitFloat /\ [][NextFloat]_vars

\* the fields of a bit pattern
SignBit(f) == Value(f) \div Pow(2, N * BITS - 1)

Exponent(f) == (Value(f) \div Pow(2, MB)) % Pow(2, EXPONENT_BITS)

Mantissa(f) == Value(f) % Pow(2, MB)

\* the category the fields stand for
Category(f) ==
    IF Exponent(f) = 0 THEN (IF Mantissa(f) = 0 THEN "Zero" ELSE "Subnormal")
    ELSE IF Exponent(f) = ExpMax THEN (IF Mantissa(f) = 0 THEN "Infinite" ELSE "Nan")
    ELSE "Normal"

\* C17: classify depends on the exponent and mantissa fields only: Zero iff
\* both are zero, Infinite iff exponent all ones and mantissa zero, Nan iff
\* exponent all ones and mantissa nonzero, Subnormal iff exponent zero and
\* mantissa nonzero, Normal otherwise; so any single mantissa bit set in the
\* Infinity pattern gives Nan
C17_ClassifyByFields ==
    Last = "classify" => res = Res(Category(self), <<>>)

\* C17 witness: the negative Infinity pattern with the lowest mantissa bit set
\* was classified as Nan
C17_Witness ==
    /\ hist = <<"classify">>
    /\ SignBit(self) = 1
    /\ Exponent(self) = ExpMax
    /\ Mantissa(self) = 1
    /\ res = Res("Nan", <<>>)

\* C18: is_quiet_nan or is_signalling_nan implies is_nan (neither holds for
\* an Infinity), every NaN satisfies exactly one of the two, and the top
\* mantissa bit decides: set is quiet, clear is signalling
C18_QuietSignallingPartition ==
    /\ Last = "is_nan" => (res.tag = "true") = (Category(self) = "Nan")
    /\ Last = "is_quiet_nan"
        => /\ res.tag = "true" => Category(self) = "Nan"
           /\ Len(hist) = 2 => (res.tag = "true" => prev.tag = "true")
           /\ Category(self) = "Nan"
                => (res.tag = "true") = (Mantissa(self) >= Pow(2, MB - 1))
    /\ Last = "is_signalling_nan"
        => /\ res.tag = "true" => Category(self) = "Nan"
           /\ hist[1] = "is_nan" => (res.tag = "true" => prev.tag = "true")
           /\ (hist[1] = "is_quiet_nan" /\ Category(self) = "Nan") => res.tag # prev.tag
           /\ Category(self) = "Nan"
                => (res.tag = "true") = (Mantissa(self) < Pow(2, MB - 1))

\* C19: with a NaN operand eq is false and partial_cmp is None, also for a
\* NaN against itself; otherwise +0 and -0 are equal; otherwise eq compares
\* the bit patterns and partial_cmp is Some(total_cmp)
C19_FloatPartialComparison ==
    /\ Last = "eq"
        => res = Bool(IF Category(self) = "Nan" \/ Category(rhs) = "Nan" THEN FALSE
                      ELSE IF Category(self) = "Zero" /\ Category(rhs) = "Zero" THEN TRUE
                      ELSE self = rhs)
    /\ Last = "partial_cmp"
        => IF Category(self) = "Nan" \/ Category(rhs) = "Nan" THEN res = None
           ELSE IF Category(self) = "Zero" /\ Category(rhs) = "Zero"
                THEN res = Some(<<Equal>>)
           ELSE /\ res = Some(<<total_cmp(self, rhs)>>)
                /\ Len(hist) = 2 => res = Some(prev.val)

\* C19 witness: a NaN was compared with itself and found unequal
C19_Witness ==
    /\ hist = <<"eq">>
    /\ Category(self) = "Nan"
    /\ rhs = self
    /\ res = Bool(FALSE)

\* the place of a bit pattern in the sign-magnitude order
TotalKey(f) ==
    IF SignBit(f) = 1 THEN 0 - (Value(f) - Pow(2, N * BITS - 1)) - 1 ELSE Value(f)

\* negative NaN, -Infinity, negative finite, -0, +0, positive finite,
\* +Infinity, positive NaN
Rank(f) ==
    LET r == IF Category(f) = "Zero" THEN 1
             ELSE IF Category(f) = "Infinite" THEN 3
             ELSE IF Category(f) = "Nan" THEN 4
             ELSE 2
    IN  IF SignBit(f) = 1 THEN 0 - r ELSE r

\* C20: total_cmp is a total order over all bit patterns: reflexive,
\* antisymmetric, transitive, Equal iff the patterns are identical, and
\* negative NaN < -Infinity < negative finite < -0 < +0 < positive finite <
\* +Infinity < positive NaN
C20_TotalCmpTotalOrder ==
    Last = "total_cmp"
        => /\ res = Ordering(NumOrd(TotalKey(self), TotalKey(rhs)))
           /\ total_cmp(self, self) = Equal
           /\ total_cmp(rhs, self) = reverse(res.val[1])
           /\ (res.val[1] = Equal) = (self = rhs)
           /\ (res.val[1] # Greater /\ total_cmp(rhs, third) # Greater)
                => total_cmp(self, third) # Greater
           /\ Rank(self) < Rank(rhs) => res.val[1] = Less
           /\ Rank(self) > Rank(rhs) => res.val[1] = Greater

\* C20 witness: a negative NaN was found below -Infinity
C20_Witness ==
    /\ hist = <<"total_cmp">>
    /\ SignBit(self) = 1 /\ Category(self) = "Nan"
    /\ SignBit(rhs) = 1 /\ Category(rhs) = "Infinite"
    /\ res = Ordering(Less)


\* a NaN by its fields
IsNaN(f) == Category(f) = "Nan"

\* the place of a non-NaN pattern in the partial order: +0 and -0 share one
PartialKey(f) == IF Category(f) = "Zero" THEN 0 ELSE TotalKey(f)

\* C21: max and min treat NaN as absent: with exactly one NaN operand the
\* result is the other operand; the result is NaN only if both are; with no
\* NaN the result is one of the operands, not less than either (max), not
\* greater than either (min)
C21_MaxMinSkipNaN ==
    Last \in {"max", "min"}
        => /\ (IsNaN(self) /\ ~IsNaN(rhs)) => res.val = rhs
           /\ (~IsNaN(self) /\ IsNaN(rhs)) => res.val = self
           /\ IsNaN(res.val) => (IsNaN(self) /\ IsNaN(rhs))
           /\ (~IsNaN(self) /\ ~IsNaN(rhs))
                => /\ res.val \in {self, rhs}
                   /\ Last = "max" => /\ PartialKey(res.val) >= PartialKey(self)
                                       /\ PartialKey(res.val) >= PartialKey(rhs)
                   /\ Last = "min" => /\ PartialKey(res.val) <= PartialKey(self)
                                       /\ PartialKey(res.val) <= PartialKey(rhs)

\* C21 witness: max of a NaN and a negative number gave the number
C21_Witness ==
    /\ hist = <<"max">>
    /\ IsNaN(self)
    /\ ~IsNaN(rhs) /\ SignBit(rhs) = 1
    /\ res = Res("Val", rhs)

\* C22 as stated: maximum is the operand greater under total_cmp and minimum
\* the lesser, self when Equal, for all bit patterns, NaNs included
C22_MaximumByTotalCmp ==
    /\ Last = "maximum"
        => res.val = (IF TotalKey(self) < TotalKey(rhs) THEN rhs ELSE self)
    /\ Last = "minimum"
        => res.val = (IF TotalKey(self) > TotalKey(rhs) THEN rhs ELSE self)

\* C22 amended: a NaN operand is returned as it is, self's before other's;
\* for two operands that are not NaN, maximum is the operand greater under
\* total_cmp and minimum the lesser, self when Equal
C22_MaximumByTotalCmpExceptNaN ==
    /\ (Last \in {"maximum", "minimum"} /\ (IsNaN(self) \/ IsNaN(rhs)))
        => res.val = (IF IsNaN(self) THEN self ELSE rhs)
    /\ (Last = "maximum" /\ ~IsNaN(self) /\ ~IsNaN(rhs))
        => res.val = (IF TotalKey(self) < TotalKey(rhs) THEN rhs ELSE self)
    /\ (Last = "minimum" /\ ~IsNaN(self) /\ ~IsNaN(rhs))
        => res.val = (IF TotalKey(self) > TotalKey(rhs) THEN rhs ELSE self)

\* C22 witness: maximum of -0 and +0 gave +0, the greater under total_cmp
C22_Witness ==
    /\ hist = <<"maximum">>
    /\ Category(self) = "Zero" /\ SignBit(self) = 1
    /\ Category(rhs) = "Zero" /\ SignBit(rhs) = 0
    /\ res = Res("Val", rhs)

\* C23: min and max of operands that compare equal return self bit for bit:
\* min(+0, -0) is +0 and min(-0, +0) is -0
C23_MinMaxEqualReturnsSelf ==
    (Last \in {"max", "min"} /\ ~IsNaN(self) /\ ~IsNaN(rhs)
        /\ PartialKey(self) = PartialKey(rhs))
        => res.val = self

\* C23 witness: min(+0, -0) gave the +0 pattern
C23_Witness ==
    /\ hist = <<"min">>
    /\ self = ZERO
    /\ Category(rhs) = "Zero" /\ SignBit(rhs) = 1
    /\ res = Res("Val", ZERO)

\* the same fields under the other sign
FlipSign(f) == FloatBits(1 - SignBit(f), Exponent(f), Mantissa(f))

\* C28: each predicate agrees with classify: is_zero iff Zero, is_infinite iff
\* Infinite, is_nan iff Nan, is_subnormal iff Subnormal, is_normal iff Normal,
\* is_finite iff neither Infinite nor Nan; exactly one of the five holds; the
\* sign bit changes none of them; is_sign_positive negates is_sign_negative
C28_PredicatesAgreeWithClassify ==
    /\ hist = <<"classify", "is_zero">> => (res.tag = "true") = (prev.tag = "Zero")
    /\ hist = <<"classify", "is_infinite">> => (res.tag = "true") = (prev.tag = "Infinite")
    /\ hist = <<"classify", "is_nan">> => (res.tag = "true") = (prev.tag = "Nan")
    /\ hist = <<"classify", "is_subnormal">> => (res.tag = "true") = (prev.tag = "Subnormal")
    /\ hist = <<"classify", "is_normal">> => (res.tag = "true") = (prev.tag = "Normal")
    /\ hist = <<"classify", "is_finite">>
        => (res.tag = "true") = (prev.tag \notin {"Infinite", "Nan"})
    /\ hist = <<"classify">>
        => /\ Cardinality({c \in {"Zero", "Infinite", "Nan", "Subnormal", "Normal"} :
                    \/ c = "Zero" /\ Float_is_zero(self)
                    \/ c = "Infinite" /\ is_infinite(self)
                    \/ c = "Nan" /\ is_nan(self)
                    \/ c = "Subnormal" /\ is_subnormal(self)
                    \/ c = "Normal" /\ is_normal(self)}) = 1
           /\ classify(FlipSign(self)) = res
           /\ Float_is_zero(FlipSign(self)) = Float_is_zero(self)
           /\ is_infinite(FlipSign(self)) = is_infinite(self)
           /\ is_nan(FlipSign(self)) = is_nan(self)
           /\ is_subnormal(FlipSign(self)) = is_subnormal(self)
           /\ is_finite(FlipSign(self)) = is_finite(self)
    /\ hist = <<"is_sign_negative">> => (res.tag = "true") = (SignBit(self) = 1)
    /\ hist = <<"is_sign_negative", "is_sign_positive">> => res.tag # prev.tag

\* C28 witness: a negative subnormal was classified and is_subnormal agreed
C28_Witness ==
    /\ hist = <<"classify", "is_subnormal">>
    /\ SignBit(self) = 1
    /\ prev = Res("Subnormal", <<>>)
    /\ res = Bool(TRUE)

\* C29: maximum and minimum propagate NaN: a NaN self is the result, else a
\* NaN other is, so the result is NaN whenever an operand is; two operands
\* that are not NaN are chosen between by total_cmp: maximum(+0, -0) is +0
\* and minimum(+0, -0) is -0
C29_MaximumPropagatesNaN ==
    Last \in {"maximum", "minimum"}
        => /\ IsNaN(self) => res.val = self
           /\ (~IsNaN(self) /\ IsNaN(rhs)) => res.val = rhs
           /\ (IsNaN(self) \/ IsNaN(rhs)) <=> IsNaN(res.val)
           /\ (~IsNaN(self) /\ ~IsNaN(rhs))
                => /\ res.val \in {self, rhs}
                   /\ Last = "maximum" => /\ TotalKey(res.val) >= TotalKey(self)
                                           /\ TotalKey(res.val) >= TotalKey(rhs)
                   /\ Last = "minimum" => /\ TotalKey(res.val) <= TotalKey(self)
                                           /\ TotalKey(res.val) <= TotalKey(rhs)
           /\ (self = ZERO /\ rhs = FlipSign(ZERO))
                => res.val = (IF Last = "maximum" THEN ZERO ELSE FlipSign(ZERO))

\* C29 witness: minimum of two different NaNs gave the first
C29_Witness ==
    /\ hist = <<"minimum">>
    /\ IsNaN(self)
    /\ IsNaN(rhs)
    /\ self # rhs
    /\ res = Res("Val", self)

\* C30: clamp(x, lo, hi) aborts unless lo <= hi in the partial order, so also
\* when lo or hi is NaN; when it returns, a NaN x comes back unchanged and any
\* other x gives lo if x < lo, hi if x > hi, and x otherwise
C30_FloatClamp ==
    Last = "clamp"
        => IF IsNaN(rhs) \/ IsNaN(third) \/ PartialKey(rhs) > PartialKey(third)
           THEN res = Panic
           ELSE /\ res.tag = "Val"
                /\ IsNaN(self) => res.val = self
                /\ ~IsNaN(self)
                    => res.val = (IF PartialKey(self) < PartialKey(rhs) THEN rhs
                                  ELSE IF PartialKey(self) > PartialKey(third) THEN third
                                  ELSE self)

\* C30 witness: clamp with a NaN as upper bound aborted
C30_Witness ==
    /\ hist = <<"clamp">>
    /\ ~IsNaN(self)
    /\ ~IsNaN(rhs)
    /\ IsNaN(third)
    /\ res = Panic

(***************************************************************************)
(* Radix claims: canonical digits, unsupported radixes                     *)
(***************************************************************************)

\* non-empty, every digit below r, and no leading zero except in <<0>>
CanonicalBe(ds, r) ==
    /\ Len(ds) > 0
    /\ AllValid(ds, r)
    /\ (ds[1] # 0 \/ Len(ds) = 1)

\* the digits a string of '0'-'9' and 'a'-'z' stands for
StrDigits(str) == [k \in 1..Len(str) |-> CharDigit(str[k])]

LowercaseAlnum(str) == \A k \in 1..Len(str) : str[k] \in 48..57 \cup 97..122

\* C24: canonical digits whose value fits, parsed by from_radix_be / from_radix_le
\* and formatted by to_radix_be / to_radix_le in the same radix, come back
\* unchanged, and so does a canonical lowercase string through from_str_radix
\* and to_str_radix
C24_DigitsRoundTrip ==
    /\ (hist = <<"from_radix_be">> /\ CanonicalBe(buf, radix)
            /\ CappedValueBe(buf, radix, 0) < Limit)
        => res.tag = "Some"
    /\ (hist = <<"from_radix_be", "to_radix_be">> /\ CanonicalBe(buf, radix)
            /\ CappedValueBe(buf, radix, 0) < Limit)
        => res = Res("Vec", buf)
    /\ (hist = <<"from_radix_le">> /\ CanonicalBe(Rev(buf), radix)
            /\ CappedValueBe(Rev(buf), radix, 0) < Limit)
        => res.tag = "Some"
    /\ (hist = <<"from_radix_le", "to_radix_le">> /\ CanonicalBe(Rev(buf), radix)
            /\ CappedValueBe(Rev(buf), radix, 0) < Limit)
        => res = Res("Vec", buf)
    /\ (hist = <<"from_str_radix">> /\ LowercaseAlnum(buf)
            /\ CanonicalBe(StrDigits(buf), radix)
            /\ CappedValueBe(StrDigits(buf), radix, 0) < Limit)
        => res.tag = "Ok"
    /\ (hist = <<"from_str_radix", "to_str_radix">> /\ LowercaseAlnum(buf)
            /\ CanonicalBe(StrDigits(buf), radix)
            /\ CappedValueBe(StrDigits(buf), radix, 0) < Limit)
        => res = Res("Vec", buf)

\* C24 witness: canonical digits of more than one digit, not a palindrome, in a
\* radix that is no power of two, came back from to_radix_be
C24_Witness ==
    /\ hist = <<"from_radix_be", "to_radix_be">>
    /\ CanonicalBe(buf, radix)
    /\ CappedValueBe(buf, radix, 0) < Limit
    /\ ~is_power_of_two(radix)
    /\ Len(buf) > 2
    /\ buf # Rev(buf)
    /\ res = Res("Vec", buf)

\* C25: to_str_radix aborts when the radix is outside 2..=36, and to_radix_be and
\* to_radix_le abort when it is outside 2..=256, whatever self is
C25_FormatRejectsUnsupportedRadix ==
    /\ (hist \in {<<"to_radix_le">>, <<"to_radix_be">>} /\ radix \notin ByteRadixes)
        => res = Panic
    /\ (hist = <<"to_str_radix">> /\ radix \notin StrRadixes) => res = Panic

\* C26: from_radix_be and from_radix_le abort when the radix is outside 2..=256,
\* from_str_radix, and parse_bytes on ASCII bytes, when it is outside 2..=36,
\* whatever the input is
C26_ParseRejectsUnsupportedRadix ==
    /\ (hist \in {<<"from_radix_le">>, <<"from_radix_be">>} /\ radix \notin ByteRadixes)
        => res = Panic
    /\ (hist = <<"from_str_radix">> /\ radix \notin StrRadixes) => res = Panic
    /\ (hist = <<"parse_bytes">> /\ radix \notin StrRadixes
            /\ \A k \in 1..Len(buf) : buf[k] < 128)
        => res = Panic

\* C26 witness: valid digits of radix 257 were rejected by the abort
C26_Witness ==
    /\ hist = <<"from_radix_be">>
    /\ radix = 257
    /\ Len(buf) = 2
    /\ AllValid(buf, radix)
    /\ res = Panic

\* C27: to_radix_le returns the canonical little-endian expansion of self in a
\* radix of 2..=256, to_radix_be the same digits most significant first, and
\* to_str_radix the characters '0'-'9', 'a'-'z' of the digits of to_radix_be
C27_CanonicalExpansion ==
    /\ (hist = <<"to_radix_le">> /\ radix \in ByteRadixes)
        => /\ res.tag = "Vec"
           /\ CanonicalBe(Rev(res.val), radix)
           /\ CappedValueBe(Rev(res.val), radix, 0) = Value(self)
    /\ (hist = <<"to_radix_be">> /\ radix \in ByteRadixes)
        => /\ res.tag = "Vec"
           /\ CanonicalBe(res.val, radix)
           /\ CappedValueBe(res.val, radix, 0) = Value(self)
    /\ (hist = <<"to_str_radix">> /\ radix \in StrRadixes)
        => /\ res.tag = "Vec"
           /\ LowercaseAlnum(res.val)
           /\ CanonicalBe(StrDigits(res.val), radix)
           /\ CappedValueBe(StrDigits(res.val), radix, 0) = Value(self)

\* C27 witness: a value with more than two digits in a radix that is no power of
\* two, whose big-endian expansion differs from the little-endian one
C27_Witness ==
    /\ hist = <<"to_radix_be">>
    /\ radix \in ByteRadixes
    /\ ~is_power_of_two(radix)
    /\ Len(res.val) > 2
    /\ res.val # Rev(res.val)
    /\ CappedValueBe(res.val, radix, 0) = Value(self)

====
